---- MODULE Spec2Model ----
(***************************************************************************)
(* State-machine model of the texas-engine repository: the poker-ws Table  *)
(* (hand state machine), its Deck and its five-of-seven hand evaluator.    *)
(***************************************************************************)
EXTENDS Integers, Sequences, FiniteSets, TLC

(***************************************************************************)
(* Cards and deck (poker-ws/src/lib.rs)                                    *)
(***************************************************************************)

\* A Card(rank, suit) is coded as the number 13 * suit + (rank - 2), which is
\* its position in the vector built by Deck::new (suits S,H,D,C = 0..3).
Card(r, s) == 13 * s + (r - 2)

RankOf(c) == 2 + (c % 13)

SuitOf(c) == c \div 13

\* Deck::new: for each suit, for each rank, push Card(rank, suit).
DeckNew == [i \in 1..52 |-> Card(2 + ((i - 1) % 13), (i - 1) \div 13)]

\* Deck::deal pops the LAST card of the vector; None on an empty deck.
NoCard == -1

DealCard(d) == IF Len(d) = 0 THEN NoCard ELSE d[Len(d)]

DealRest_Keeps(d) == d

DealRest(d) == IF Len(d) = 0 THEN d ELSE SubSeq(d, 1, Len(d) - 1)

\* Deck::deal_n: up to n successive deals, the missing ones filtered out.
RECURSIVE deal_n(_, _)
deal_n(d, n) ==
  IF n = 0 \/ Len(d) = 0 THEN [cards |-> <<>>, deck |-> d]
  ELSE LET r == deal_n(DealRest(d), n - 1)
       IN [cards |-> <<DealCard(d)>> \o r.cards, deck |-> r.deck]

(***************************************************************************)
(* Hand evaluator (poker-ws/src/game.rs, lines 216-316)                    *)
(***************************************************************************)

\* HandRank(category, [u8;5]) with the derived lexicographic order.
HandRank(cat, k) == <<cat>> \o k

RECURSIVE LexGT(_, _)
LexGT(a, b) ==
  IF Len(a) = 0 \/ Len(b) = 0 THEN Len(a) > Len(b)
  ELSE IF a[1] # b[1] THEN a[1] > b[1]
  ELSE LexGT(Tail(a), Tail(b))

RankGT(a, b) == LexGT(a, b)

RankGE(a, b) == a = b \/ LexGT(a, b)

\* Insertion of x into a sequence sorted in descending order.
RECURSIVE InsertDesc(_, _)
InsertDesc(x, s) ==
  IF Len(s) = 0 THEN <<x>>
  ELSE IF x >= s[1] THEN <<x>> \o s
  ELSE <<s[1]>> \o InsertDesc(x, Tail(s))

RECURSIVE SortDesc(_)
SortDesc(s) == IF Len(s) = 0 THEN <<>> ELSE InsertDesc(s[1], SortDesc(Tail(s)))

Reverse(s) == [i \in 1..Len(s) |-> s[Len(s) + 1 - i]]

SortAsc(s) == Reverse(SortDesc(s))

\* Vec::dedup: removes consecutive repeated elements.
RECURSIVE Dedup(_)
Dedup(s) ==
  IF Len(s) <= 1 THEN s
  ELSE IF s[1] = s[2] THEN Dedup(Tail(s))
  ELSE <<s[1]>> \o Dedup(Tail(s))

EndsWith(s, suf) ==
  /\ Len(s) >= Len(suf)
  /\ SubSeq(s, Len(s) - Len(suf) + 1, Len(s)) = suf

Contains(s, x) == \E i \in 1..Len(s) : s[i] = x

SelectNe(s, v) == SelectSeq(s, LAMBDA x : x # v)

\* The run-length loop of is_straight_sorted: i is the 1-based position, seq
\* the current run length.
RECURSIVE StraightRun(_, _, _)
StraightRun(uniq, i, seq) ==
  IF i > Len(uniq) - 1 THEN FALSE
  ELSE IF uniq[i] = uniq[i + 1] + 1
       THEN (IF seq + 1 >= 5 THEN TRUE ELSE StraightRun(uniq, i + 1, seq + 1))
       ELSE StraightRun(uniq, i + 1, 1)

\* is_straight_sorted(ranks), ranks sorted in descending order.  The wheel
\* test is made on uniq after uniq.sort_unstable(), that is on the ascending
\* order.
is_straight_sorted(ranks) ==
  LET uniq == Dedup(ranks)
  IN IF Len(uniq) < 5 THEN FALSE
     ELSE IF StraightRun(uniq, 1, 1) THEN TRUE
     ELSE EndsWith(SortAsc(uniq), <<5, 4, 3, 2>>) /\ Contains(ranks, 14)

normalize_kickers(r) == <<r[1], r[2], r[3], r[4], r[5]>>

\* counts[v] for v in 0..14.
CountsOf(ranks) ==
  [v \in 0..14 |-> Cardinality({i \in 1..Len(ranks) : ranks[i] = v})]

\* Option<u8>::None is coded 0 (no rank value is 0).
NoVal == 0

find_value_with_count(counts, n) ==
  LET S == {v \in 2..14 : counts[v] = n}
  IN IF S = {} THEN NoVal ELSE CHOOSE v \in S : \A w \in S : w <= v

find_second_pair(counts, exclude) ==
  LET S == {v \in 2..14 : v # exclude /\ counts[v] >= 2}
  IN IF S = {} THEN NoVal ELSE CHOOSE v \in S : \A w \in S : w <= v

\* Option<tuple>::None is coded as the empty tuple.
NoTuple == <<>>

\* (quad, kicker) or NoTuple.
find_n_of_a_kind(counts, n, ranks) ==
  LET v == find_value_with_count(counts, n)
      rest == SelectNe(ranks, v)
  IN IF v = NoVal THEN NoTuple
     ELSE <<v, IF Len(rest) = 0 THEN 2 ELSE rest[1]>>

find_three(counts, ranks) ==
  LET v == find_value_with_count(counts, 3)
      ks == SortDesc(SelectNe(ranks, v))
  IN IF v = NoVal THEN NoTuple ELSE <<v, ks[1], ks[2]>>

find_pair(counts, ranks) ==
  LET v == find_value_with_count(counts, 2)
      ks == SortDesc(SelectNe(ranks, v))
  IN IF v = NoVal THEN NoTuple ELSE <<v, ks[1], ks[2], ks[3]>>

find_two_pair(counts, ranks) ==
  LET S == {v \in 2..14 : counts[v] >= 2}
      hp == CHOOSE v \in S : \A w \in S : w <= v
      lp == CHOOSE v \in S \ {hp} : \A w \in S \ {hp} : w <= v
      rest == SelectSeq(ranks, LAMBDA x : x # hp /\ x # lp)
  IN IF Cardinality(S) < 2 THEN NoTuple
     ELSE <<hp, lp, IF Len(rest) = 0 THEN 2 ELSE rest[1]>>

\* eval5(cards: &[Card;5]) -> HandRank
eval5(cards) ==
  LET ranks == SortDesc([i \in 1..5 |-> RankOf(cards[i])])
      counts == CountsOf(ranks)
      is_flush == \A i \in 1..5 : SuitOf(cards[i]) = SuitOf(cards[1])
      is_straight == is_straight_sorted(ranks)
      quad == find_n_of_a_kind(counts, 4, ranks)
      trip == find_value_with_count(counts, 3)
      fhp == find_second_pair(counts, trip)
      three == find_three(counts, ranks)
      twop == find_two_pair(counts, ranks)
      onep == find_pair(counts, ranks)
  IN IF is_flush /\ is_straight THEN HandRank(8, normalize_kickers(ranks))
     ELSE IF quad # NoTuple
       THEN HandRank(7, <<quad[1], quad[1], quad[1], quad[1], quad[2]>>)
     ELSE IF trip # NoVal /\ fhp # NoVal
       THEN HandRank(6, <<trip, trip, trip, fhp, fhp>>)
     ELSE IF is_flush THEN HandRank(5, normalize_kickers(ranks))
     ELSE IF is_straight THEN HandRank(4, normalize_kickers(ranks))
     ELSE IF three # NoTuple
       THEN HandRank(3, <<three[1], three[1], three[1], three[2], three[3]>>)
     ELSE IF twop # NoTuple
       THEN HandRank(2, <<twop[1], twop[1], twop[2], twop[2], twop[3]>>)
     ELSE IF onep # NoTuple
       THEN HandRank(1, <<onep[1], onep[1], onep[2], onep[3], onep[4]>>)
     ELSE HandRank(0, normalize_kickers(ranks))

\* One pass of the inner `while i>0` of combinations: idx holds 0-based values
\* at 1-based positions; position p stands for the code's i = p - 1.
RECURSIVE CombAdvance(_, _, _, _)
CombAdvance(idx, p, n, k) ==
  IF p = 0 THEN idx
  ELSE IF idx[p] # (p - 1) + n - k
       THEN [q \in 1..k |-> IF q < p THEN idx[q] ELSE idx[p] + 1 + (q - p)]
       ELSE CombAdvance(idx, p - 1, n, k)

\* The `loop` of combinations: push the current selection, advance, and leave
\* the loop as soon as idx[0] == n - k.
RECURSIVE CombLoop(_, _, _, _)
CombLoop(items, idx, n, k) ==
  LET cur == [q \in 1..k |-> items[idx[q] + 1]]
      nxt == CombAdvance(idx, k, n, k)
  IN IF nxt[1] = n - k THEN <<cur>>
     ELSE <<cur>> \o CombLoop(items, nxt, n, k)

\* combinations(items, k), for Len(items) >= k (a shorter vector makes the
\* first items[i] panic with an index out of bounds).
combinations(items, k) ==
  CombLoop(items, [q \in 1..k |-> q - 1], Len(items), k)

RECURSIVE BestOver(_, _, _)
BestOver(cards, combs, best) ==
  IF Len(combs) = 0 THEN best
  ELSE LET c == combs[1]
           r == eval5(<<cards[c[1] + 1], cards[c[2] + 1], cards[c[3] + 1],
                        cards[c[4] + 1], cards[c[5] + 1]>>)
       IN BestOver(cards, Tail(combs), IF RankGT(r, best) THEN r ELSE best)

\* best_rank(hole, board) -> HandRank
best_rank(hole, board) ==
  LET cards == hole \o board
      n == Len(cards)
      idxs == [i \in 1..n |-> i - 1]
  IN BestOver(cards, combinations(idxs, 5), HandRank(0, <<0, 0, 0, 0, 0>>))

(***************************************************************************)
(* Table: the hand state machine (poker-ws/src/game.rs, lines 1-214)       *)
(***************************************************************************)

\* Table::new(id, max_seats, sb, bb) as the tests and the room actor build it.
MaxSeats == 3

SmallBlind == 1

BigBlind == 2

SeatIdx == 0..(MaxSeats - 1)

\* Option::None for user_id, street and the timers.
None == "None"

OpenStreets == {"Preflop", "Flop", "Turn", "River"}

\* Seat::empty()
SeatEmpty ==
  [user_id |-> None, stack |-> 0, hole |-> <<>>, sitting_out |-> FALSE,
   has_folded |-> FALSE, is_allin |-> FALSE, acted_in_round |-> FALSE]

SeatNew(u, stack) == [SeatEmpty EXCEPT !.user_id = u, !.stack = stack]

\* Table::new
TableNew ==
  [seats |-> [i \in SeatIdx |-> SeatEmpty],
   dealer_idx |-> 0, to_act_idx |-> 0, board |-> <<>>,
   pot |-> 0, street |-> None, round_bet |-> 0,
   round_contrib |-> [i \in SeatIdx |-> 0],
   total_contrib |-> [i \in SeatIdx |-> 0]]

Min(a, b) == IF a <= b THEN a ELSE b

\* a.saturating_sub(b) on u64
SatSub(a, b) == IF a >= b THEN a - b ELSE 0

Vacant(t) == {i \in SeatIdx : t.seats[i].user_id = None}

LowestOf(S) == CHOOSE i \in S : \A j \in S : i <= j

\* Table::sit: the first vacant seat is overwritten; false when none is vacant.
sit(t, u, stack) ==
  IF Vacant(t) = {} THEN [ok |-> FALSE, table |-> t]
  ELSE [ok |-> TRUE,
        table |-> [t EXCEPT !.seats[LowestOf(Vacant(t))] = SeatNew(u, stack)]]

active_player_count(t) ==
  Cardinality({i \in SeatIdx :
                  t.seats[i].user_id # None /\ ~t.seats[i].sitting_out})

CanAct_IgnoresVacant(s) == ~s.sitting_out /\ ~s.is_allin /\ ~s.has_folded

\* The seat test of next_occupied_from (line 57).
CanAct(s) ==
  s.user_id # None /\ ~s.sitting_out /\ ~s.is_allin /\ ~s.has_folded

\* Table::next_occupied_from: at most max_seats steps clockwise; when no seat
\* qualifies the index reached after the last step is returned.
RECURSIVE NextOccupiedLoop(_, _, _)
NextOccupiedLoop(t, idx, left) ==
  IF left = 0 THEN idx
  ELSE LET nxt == (idx + 1) % MaxSeats
       IN IF CanAct(t.seats[nxt]) THEN nxt
          ELSE NextOccupiedLoop(t, nxt, left - 1)

next_occupied_from(t, idx) == NextOccupiedLoop(t, idx, MaxSeats)

\* The two dealing passes of start_hand: `order` lists the seats still to be
\* served; a seat gets the popped card only when the deck still has one.
RECURSIVE DealHoles(_, _, _)
DealHoles(seats, d, order) ==
  IF Len(order) = 0 THEN [seats |-> seats, deck |-> d]
  ELSE IF Len(d) = 0 THEN DealHoles(seats, d, Tail(order))
  ELSE DealHoles([seats EXCEPT ![order[1]].hole = @ \o <<DealCard(d)>>],
                 DealRest(d), Tail(order))

\* The seats a pass of `for seat in &mut self.seats` serves, in index order.
RECURSIVE DealPass(_, _)
DealPass(seats, i) ==
  IF i >= MaxSeats THEN <<>>
  ELSE (IF seats[i].user_id # None /\ ~seats[i].sitting_out
        THEN <<i>> ELSE <<>>) \o DealPass(seats, i + 1)

PostBlind_NoPot(t, i, blind) ==
  LET amt == Min(blind, t.seats[i].stack)
  IN [t EXCEPT !.seats[i].stack = @ - amt,
               !.round_contrib[i] = @ + amt,
               !.total_contrib[i] = @ + amt]

\* Posting of one blind: min(blind, stack) moves from the stack to the pot.
PostBlind(t, i, blind) ==
  LET amt == Min(blind, t.seats[i].stack)
  IN [t EXCEPT !.seats[i].stack = @ - amt,
               !.round_contrib[i] = @ + amt,
               !.total_contrib[i] = @ + amt,
               !.pot = @ + amt]

BlindRoundBet_FromSB(t, sb_idx, bb_idx) == t.round_contrib[sb_idx]

\* round_bet after the blinds.
BlindRoundBet(t, sb_idx, bb_idx) == t.round_contrib[bb_idx]

\* Table::start_hand(deck)
start_hand(t, d) ==
  LET cleared ==
        [i \in SeatIdx |-> [t.seats[i] EXCEPT !.hole = <<>>,
                                             !.has_folded = FALSE,
                                             !.is_allin = FALSE,
                                             !.acted_in_round = FALSE]]
      pass == DealPass(cleared, 0)
      dealt == DealHoles(cleared, d, pass \o pass)
      t0 == [t EXCEPT !.pot = 0, !.street = "Preflop", !.board = <<>>,
                      !.round_bet = 0,
                      !.round_contrib = [i \in SeatIdx |-> 0],
                      !.total_contrib = [i \in SeatIdx |-> 0],
                      !.seats = dealt.seats]
      sb_idx == next_occupied_from(t0, t0.dealer_idx)
      bb_idx == next_occupied_from(t0, sb_idx)
      t1 == PostBlind(t0, sb_idx, SmallBlind)
      t2 == PostBlind(t1, bb_idx, BigBlind)
      t3 == [t2 EXCEPT !.round_bet = BlindRoundBet(t2, sb_idx, bb_idx)]
  IN [table |-> [t3 EXCEPT !.to_act_idx = next_occupied_from(t3, bb_idx)],
      deck |-> dealt.deck]

ResetRound_KeepsActed(t) ==
  [t EXCEPT !.round_bet = 0, !.round_contrib = [i \in SeatIdx |-> 0]]

\* Reset of the betting round shared by every arm of next_street.
ResetRound(t) ==
  [t EXCEPT !.round_bet = 0,
            !.round_contrib = [i \in SeatIdx |-> 0],
            !.seats = [i \in SeatIdx |->
                         [t.seats[i] EXCEPT !.acted_in_round = FALSE]]]

\* Table::next_street(deck)
next_street(t, d) ==
  LET n == CASE t.street = "Preflop" -> 3
             [] t.street = "Flop" -> 1
             [] t.street = "Turn" -> 1
             [] OTHER -> 0
      dn == deal_n(d, n)
      st == CASE t.street = "Preflop" -> "Flop"
              [] t.street = "Flop" -> "Turn"
              [] t.street = "Turn" -> "River"
              [] t.street = "River" -> "Showdown"
              [] OTHER -> t.street
      t1 == ResetRound([t EXCEPT !.board = @ \o dn.cards, !.street = st])
  IN [table |-> IF st # None /\ st # "Showdown"
                THEN [t1 EXCEPT !.to_act_idx =
                                  next_occupied_from(t1, t1.dealer_idx)]
                ELSE t1,
      deck |-> dn.deck]

\* Table::alive_players, in ascending seat order (as a set of indices).
alive_players(t) ==
  {i \in SeatIdx :
     /\ t.seats[i].user_id # None
     /\ ~t.seats[i].sitting_out
     /\ ~t.seats[i].has_folded
     /\ (t.seats[i].stack > 0 \/ t.round_contrib[i] > 0
           \/ t.total_contrib[i] > 0)}

\* Table::all_matched
all_matched(t) ==
  \A i \in SeatIdx :
     LET s == t.seats[i]
     IN (s.user_id = None \/ s.sitting_out \/ s.has_folded \/ s.is_allin)
        \/ (t.round_contrib[i] = t.round_bet /\ s.acted_in_round)

\* Result<ApplyOutcome, String>
OkResults == {"Continue", "NextStreet", "HandEnded"}

ErrResults ==
  {"not seated", "not your turn", "hand not active", "cannot check",
   "min raise", "bad raise", "unknown action"}

\* seats.iter().position(|s| s.user_id == Some(user_id)); -1 when absent.
SeatOf(t, u) ==
  LET S == {i \in SeatIdx : t.seats[i].user_id = u}
  IN IF u = None \/ S = {} THEN -1 ELSE LowestOf(S)

to_call_of(t, i) == SatSub(t.round_bet, t.round_contrib[i])

\* Option<u64>::None of the amount is coded -1; amount.unwrap_or(0).
NoAmount == -1

UnwrapOr0(amount) == IF amount = NoAmount THEN 0 ELSE amount

\* The chip movement shared by call and raise.
Pay(t, i, pay) ==
  [t EXCEPT !.seats[i].stack = @ - pay,
            !.round_contrib[i] = @ + pay,
            !.total_contrib[i] = @ + pay,
            !.pot = @ + pay,
            !.seats[i].acted_in_round = TRUE,
            !.seats[i].is_allin = (t.seats[i].stack - pay = 0) \/ @]

ActFold(t, i) ==
  [t EXCEPT !.seats[i].has_folded = TRUE, !.seats[i].acted_in_round = TRUE]

ActCheck(t, i) == [t EXCEPT !.seats[i].acted_in_round = TRUE]

ActCall(t, i) == Pay(t, i, Min(to_call_of(t, i), t.seats[i].stack))

ActRaise_KeepsActed(t, i, raise_by) ==
  LET need == to_call_of(t, i) + raise_by
      t1 == Pay(t, i, Min(need, t.seats[i].stack))
  IN [t1 EXCEPT !.round_bet = t1.round_contrib[i]]

ActRaise(t, i, raise_by) ==
  LET need == to_call_of(t, i) + raise_by
      t1 == Pay(t, i, Min(need, t.seats[i].stack))
  IN [t1 EXCEPT !.round_bet = t1.round_contrib[i],
                !.seats = [j \in SeatIdx |->
                             IF j # i
                             THEN [t1.seats[j] EXCEPT !.acted_in_round = FALSE]
                             ELSE t1.seats[j]]]

\* The end of a hand by fold-to-one: the first alive seat (if any) takes the
\* pot.
EndHand(t) ==
  LET alive == alive_players(t)
      t1 == IF alive = {} THEN t
            ELSE [t EXCEPT !.seats[LowestOf(alive)].stack = @ + t.pot]
      t2 == [t1 EXCEPT !.pot = 0, !.street = None, !.board = <<>>,
                       !.round_contrib = [i \in SeatIdx |-> 0],
                       !.total_contrib = [i \in SeatIdx |-> 0]]
  IN [t2 EXCEPT !.dealer_idx = next_occupied_from(t2, t2.dealer_idx)]

\* The tail of apply_action_by_user (lines 148-163).
Settle(t, i) ==
  IF Cardinality(alive_players(t)) <= 1
  THEN [res |-> "HandEnded", table |-> EndHand(t)]
  ELSE IF all_matched(t) THEN [res |-> "NextStreet", table |-> t]
  ELSE [res |-> "Continue",
        table |-> [t EXCEPT !.to_act_idx = next_occupied_from(t, i)]]

\* The arms of `match action` (lines 125-146): "ok" and the changed table, or
\* the error of an early return and the table as it is at that point.
ArmFold(t, i) == [res |-> "ok", table |-> ActFold(t, i)]

ArmCheck_MarkFirst(t, i) ==
  IF to_call_of(t, i) # 0
  THEN [res |-> "cannot check", table |-> ActCheck(t, i)]
  ELSE [res |-> "ok", table |-> ActCheck(t, i)]

ArmCheck(t, i) ==
  IF to_call_of(t, i) # 0 THEN [res |-> "cannot check", table |-> t]
  ELSE [res |-> "ok", table |-> ActCheck(t, i)]

ArmCall(t, i) == [res |-> "ok", table |-> ActCall(t, i)]

ArmRaise(t, i, amount) ==
  LET raise_by == UnwrapOr0(amount)
  IN IF raise_by < BigBlind THEN [res |-> "min raise", table |-> t]
     ELSE IF to_call_of(t, i) + raise_by = 0
       THEN [res |-> "bad raise", table |-> t]
     ELSE [res |-> "ok", table |-> ActRaise(t, i, raise_by)]

\* The test of line 122.
NotYourTurn_Skipped(t, i) == FALSE

NotYourTurn(t, i) == t.to_act_idx # i

\* Table::apply_action_by_user(user_id, action, amount)
apply_action_by_user(t, u, action, amount) ==
  LET i == SeatOf(t, u)
      arm == CASE action = "fold" -> ArmFold(t, i)
               [] action = "check" -> ArmCheck(t, i)
               [] action = "call" -> ArmCall(t, i)
               [] action = "raise" -> ArmRaise(t, i, amount)
               [] OTHER -> [res |-> "unknown action", table |-> t]
  IN IF i = -1 THEN [res |-> "not seated", table |-> t]
     ELSE IF NotYourTurn(t, i) THEN [res |-> "not your turn", table |-> t]
     ELSE IF t.street = "Showdown" \/ t.street = None
       THEN [res |-> "hand not active", table |-> t]
     ELSE IF arm.res # "ok" THEN arm
     ELSE Settle(arm.table, i)

\* Ascending sequence of the members of a set of seat indices.
RECURSIVE SeqAsc(_)
SeqAsc(S) ==
  IF S = {} THEN <<>> ELSE <<LowestOf(S)>> \o SeqAsc(S \ {LowestOf(S)})

\* The eligible vector built inside the side-pot loop (line 181).
Eligible(t, remaining) ==
  SeqAsc({i \in SeatIdx :
            /\ t.seats[i].user_id # None
            /\ ~t.seats[i].has_folded
            /\ ~t.seats[i].sitting_out
            /\ t.total_contrib[i] > 0})

\* The side-pot loop of showdown_and_payout (lines 168-186): a sequence of
\* layers [amount, eligible].
RECURSIVE SidePots(_, _)
SidePots(t, remaining) ==
  LET pos == {i \in SeatIdx : remaining[i] > 0}
      layer == CHOOSE m \in {remaining[i] : i \in pos} :
                 \A i \in pos : m <= remaining[i]
      rest == [i \in SeatIdx |->
                 IF remaining[i] > 0 THEN remaining[i] - layer
                 ELSE remaining[i]]
  IN IF pos = {} THEN <<>>
     ELSE <<[amount |-> layer * Cardinality(pos),
             eligible |-> Eligible(t, remaining)]>> \o SidePots(t, rest)

\* ranks[i]: Some(best_rank) for the occupied, not folded seats; None is <<>>.
RanksOf(t) ==
  [i \in SeatIdx |->
     IF t.seats[i].user_id # None /\ ~t.seats[i].has_folded
     THEN best_rank(t.seats[i].hole, t.board) ELSE NoTuple]

\* The winner scan of one layer (lines 197-202).
RECURSIVE PickWinners(_, _, _, _)
PickWinners(elig, ranks, best, winners) ==
  IF Len(elig) = 0 THEN winners
  ELSE LET i == elig[1]
           r == ranks[i]
       IN IF r = NoTuple THEN PickWinners(Tail(elig), ranks, best, winners)
          ELSE IF best = NoTuple \/ RankGT(r, best)
            THEN PickWinners(Tail(elig), ranks, r, <<i>>)
          ELSE IF r = best
            THEN PickWinners(Tail(elig), ranks, best, winners \o <<i>>)
          ELSE PickWinners(Tail(elig), ranks, best, winners)

ShareOf_RemainderLast(amount, winners, i) ==
  LET n == Len(winners)
      share == amount \div n
      remainder == amount - share * n
      pos == CHOOSE k \in 1..n : winners[k] = i
  IN IF ~Contains(winners, i) THEN 0
     ELSE share + (IF pos > n - remainder THEN 1 ELSE 0)

\* The chips seat i takes from a layer won by `winners` (lines 204-208).
ShareOf(amount, winners, i) ==
  LET n == Len(winners)
      share == amount \div n
      remainder == amount - share * n
      pos == CHOOSE k \in 1..n : winners[k] = i
  IN IF ~Contains(winners, i) THEN 0
     ELSE share + (IF pos <= remainder THEN 1 ELSE 0)

\* The payout of one layer.
PayLayer(seats, pot, ranks) ==
  LET winners == PickWinners(pot.eligible, ranks, NoTuple, <<>>)
  IN IF pot.amount = 0 \/ Len(pot.eligible) = 0 \/ Len(winners) = 0 THEN seats
     ELSE [i \in SeatIdx |->
             [seats[i] EXCEPT !.stack = @ + ShareOf(pot.amount, winners, i)]]

RECURSIVE PayLayers(_, _, _)
PayLayers(seats, pots, ranks) ==
  IF Len(pots) = 0 THEN seats
  ELSE PayLayers(PayLayer(seats, pots[1], ranks), Tail(pots), ranks)

\* best_rank panics (index out of bounds in combinations) when a ranked seat
\* has fewer than five cards to choose from.
ShowdownPanics(t) ==
  \E i \in SeatIdx :
     /\ t.seats[i].user_id # None /\ ~t.seats[i].has_folded
     /\ Len(t.seats[i].hole) + Len(t.board) < 5

\* Table::showdown_and_payout
showdown_and_payout(t) ==
  LET pots == SidePots(t, t.total_contrib)
      paid == PayLayers(t.seats, pots, RanksOf(t))
      t1 == [t EXCEPT !.seats = paid, !.pot = 0, !.street = None,
                      !.board = <<>>,
                      !.round_contrib = [i \in SeatIdx |-> 0],
                      !.total_contrib = [i \in SeatIdx |-> 0]]
  IN [t1 EXCEPT !.dealer_idx = next_occupied_from(t1, t1.dealer_idx)]

(***************************************************************************)
(* The state machine                                                       *)
(***************************************************************************)

VARIABLES
  table,   \* the Table
  deck,    \* the Deck handed to start_hand and next_street
  last,    \* the last operation and its result
  pre,     \* the Table as it was before the last operation
  ev,      \* input and result of the last evaluator call
  actor,   \* the other fields of a TableActor, and what it last broadcast
  router,  \* the router's map, its sessions and the actors it spawned
  game     \* the legacy engine's TexasHoldem: its GameState and its deck

vars == <<table, deck, last, pre, ev, actor, router, game>>

\* The users that send commands (they sit in this order), and one that never
\* sits.
Users == {"a", "b"}

Stranger == "x"

NextUser(t) ==
  IF \A i \in SeatIdx : t.seats[i].user_id # "a" THEN "a" ELSE "b"

\* Stacks handed to sit.
StackChoices == {0, 1, 3}

\* Raise amounts sent with an action.
Amounts == {NoAmount, 1, 2}

Actions == {"fold", "check", "call", "raise", "bet"}

\* Shuffles: the cards named in `top` are dealt first, in that order; the
\* remaining cards follow in the order of Deck::new.
DeckWithTop(top) ==
  SelectSeq(DeckNew, LAMBDA c : ~Contains(top, c)) \o Reverse(top)

\* Suits S, H, D, C are 0, 1, 2, 3.  With two players TopB gives seat 1 a
\* pair of aces against seat 0's kings, TopT the same hand to both.
TopB ==
  <<Card(13, 2), Card(14, 0), Card(13, 3), Card(14, 1),
    Card(2, 2), Card(7, 0), Card(9, 3), Card(3, 1), Card(4, 2)>>

TopT ==
  <<Card(14, 0), Card(14, 1), Card(13, 2), Card(13, 3),
    Card(2, 2), Card(7, 0), Card(9, 3), Card(3, 1), Card(4, 2)>>

ShuffledDecks == {DeckWithTop(TopB), DeckWithTop(TopT)}

\* `started` tells whether the call went through start_hand.
Op(name) ==
  [op |-> name, res |-> "", user |-> None, action |-> "", started |-> FALSE]

EvIdle == [cards |-> <<>>, res |-> NoTuple]

\* No room actor and no router: the Table driven directly.
ActorIdle == <<>>

RouterIdle == <<>>

GameIdle == <<>>

\* The pot a test writes next to the total_contrib it sets up: their sum.
ContribSum(c) ==
  LET RECURSIVE Sum(_)
      Sum(i) == IF i >= MaxSeats THEN 0 ELSE c[i] + Sum(i + 1)
  IN Sum(0)

Init ==
  /\ table = TableNew
  /\ deck = DeckNew
  /\ last = Op("init")
  /\ pre = TableNew
  /\ actor = ActorIdle
  /\ router = RouterIdle
  /\ game = GameIdle
  /\ ev = EvIdle

\* t.sit(user, stack), called between hands by a user that is not seated.
Sit(u, stack) ==
  /\ table.street = None
  /\ u = NextUser(table)
  /\ SeatOf(table, u) = -1
  /\ table' = sit(table, u, stack).table
  /\ last' = [Op("sit") EXCEPT !.res = IF sit(table, u, stack).ok
                                        THEN "true" ELSE "false",
                               !.user = u]
  /\ pre' = table
  /\ UNCHANGED <<deck, ev, actor, router, game>>

\* let mut d = Deck::new(); d.shuffle(); t.start_hand(&mut d), called as the
\* room actor calls it: no hand open and at least two active players.
StartHand(d) ==
  /\ table.street = None
  /\ active_player_count(table) >= 2
  /\ table' = start_hand(table, d).table
  /\ deck' = start_hand(table, d).deck
  /\ last' = Op("start_hand")
  /\ pre' = table
  /\ UNCHANGED <<ev, actor, router, game>>

\* t.apply_action_by_user(user, action, amount)
Apply(u, action, amount) ==
  LET r == apply_action_by_user(table, u, action, amount)
  IN /\ table' = r.table
     /\ last' = IF r.res \in OkResults
                THEN [op |-> "apply", res |-> r.res, user |-> u,
                      action |-> action, started |-> FALSE]
                ELSE [Op("apply") EXCEPT !.res = r.res]
     /\ pre' = table
     /\ UNCHANGED <<deck, ev, actor, router, game>>

\* t.next_street(&mut d)
NextStreet ==
  /\ table' = next_street(table, deck).table
  /\ deck' = next_street(table, deck).deck
  /\ last' = Op("next_street")
  /\ pre' = table
  /\ UNCHANGED <<ev, actor, router, game>>

\* t.showdown_and_payout(), called once the street is Showdown.
Showdown ==
  /\ table.street = "Showdown"
  /\ ~ShowdownPanics(table)
  /\ table' = showdown_and_payout(table)
  /\ last' = Op("showdown")
  /\ pre' = table
  /\ UNCHANGED <<deck, ev, actor, router, game>>

Next ==
  \/ \E u \in Users, stack \in StackChoices : Sit(u, stack)
  \/ \E d \in ShuffledDecks : StartHand(d)
  \/ \E u \in Users \cup {Stranger}, action \in Actions :
       \E amount \in (IF action = "raise" THEN Amounts ELSE {NoAmount}) :
          Apply(u, action, amount)
  \/ NextStreet
  \/ Showdown

Spec == Init /\ [][Next]_vars

(***************************************************************************)
(* showdown_and_payout on table states set up field by field, as the tests *)
(* side_pot_simple_allin and showdown_split_pot_... set them up            *)
(***************************************************************************)

\* What a seat is when the showdown starts.
SeatKinds == {"vacant", "live", "folded", "out"}

ContribChoices == {0, 1, 2}

\* The seats the set-up fills; the others stay vacant.
SetupSeats == {0, 1, 2}

SeatUser(i) == CASE i = 0 -> "a" [] i = 1 -> "b" [] OTHER -> "c"

\* Three seats: the same hand for all three / seat 0 over seat 1 over seat 2.
TopT3 ==
  <<Card(14, 0), Card(14, 1), Card(14, 2), Card(13, 2), Card(13, 3),
    Card(13, 1), Card(2, 2), Card(7, 0), Card(9, 3), Card(3, 1), Card(4, 2)>>

\* The test's board Ah Ad Kc 7c 2s with Qd 3c against Jd 4c.
TopK ==
  <<Card(12, 2), Card(11, 2), Card(3, 3), Card(4, 3),
    Card(14, 1), Card(14, 2), Card(13, 3), Card(7, 3), Card(2, 0)>>

\* Three seats: seats 0 and 1 tie with ace-king high, seat 2 is below them.
TopW ==
  <<Card(14, 0), Card(14, 1), Card(5, 3), Card(13, 2), Card(13, 3),
    Card(6, 1), Card(2, 2), Card(7, 0), Card(9, 3), Card(3, 1), Card(12, 2)>>

SetupDecks ==
  {DeckWithTop(TopT3), DeckWithTop(TopB), DeckWithTop(TopK), DeckWithTop(TopW)}

\* The table at street Showdown: every occupied seat holds the two cards the
\* dealing passes gave it, the board its five cards, pot = sum of total_contrib.
ShowdownTable(kinds, contribs, d) ==
  LET seats0 == [i \in SeatIdx |->
                   IF i \in SetupSeats /\ kinds[i] # "vacant"
                   THEN [SeatNew(SeatUser(i), 1) EXCEPT
                           !.has_folded = (kinds[i] = "folded")]
                   ELSE SeatEmpty]
      pass == DealPass(seats0, 0)
      dealt == DealHoles(seats0, d, pass \o pass)
      total == [i \in SeatIdx |->
                  IF i \in SetupSeats /\ kinds[i] # "vacant"
                  THEN contribs[i] ELSE 0]
  IN [TableNew EXCEPT
        !.seats = [i \in SeatIdx |->
                     [dealt.seats[i] EXCEPT
                        !.sitting_out = (i \in SetupSeats /\ kinds[i] = "out")]],
        !.board = deal_n(dealt.deck, 5).cards,
        !.street = "Showdown",
        !.total_contrib = total,
        !.pot = ContribSum(total)]

\* At least two seats are still in the hand, as after the action that closed
\* the last betting round.
ShowdownInputs ==
  {ShowdownTable(kinds, contribs, d) :
     kinds \in {k \in [SetupSeats -> SeatKinds] :
                  Cardinality({i \in SetupSeats : k[i] = "live"}) >= 2},
     contribs \in [SetupSeats -> ContribChoices],
     d \in SetupDecks}

InitPayout ==
  /\ table \in ShowdownInputs
  /\ deck = <<>>
  /\ last = Op("init")
  /\ pre = table
  /\ actor = ActorIdle
  /\ router = RouterIdle
  /\ game = GameIdle
  /\ ev = EvIdle

PayoutNext == Showdown

SpecPayout == InitPayout /\ [][PayoutNext]_vars

(***************************************************************************)
(* The evaluator on its own                                                *)
(***************************************************************************)

\* Seven cards: two hole cards, then the five board cards.
SevenPool ==
  {Card(14, 0), Card(13, 2), Card(12, 3), Card(11, 3), Card(10, 0),
   Card(2, 2), Card(3, 3), Card(9, 1), Card(9, 2)}

\* Five cards.
FivePool ==
  {Card(14, 0), Card(2, 1), Card(3, 1), Card(4, 2), Card(5, 3), Card(6, 0),
   Card(7, 1), Card(9, 3), Card(9, 2), Card(9, 1)}

SevenInputs ==
  {<<h1, h2>> \o SeqAsc(B) :
     h1 \in SevenPool, h2 \in SevenPool,
     B \in {X \in SUBSET SevenPool : Cardinality(X) = 5}}

FiveInputs == {SeqAsc(X) : X \in {Y \in SUBSET FivePool : Cardinality(Y) = 5}}

Distinct(s) == \A i, j \in 1..Len(s) : i # j => s[i] # s[j]

InitEval ==
  /\ table = TableNew
  /\ deck = DeckNew
  /\ last = Op("init")
  /\ pre = TableNew
  /\ actor = ActorIdle
  /\ router = RouterIdle
  /\ game = GameIdle
  /\ ev \in {[cards |-> c, res |-> NoTuple] :
               c \in {x \in SevenInputs : Distinct(x) /\ x[1] < x[2]}
                       \cup FiveInputs}

\* best_rank(&hole, &board) on two hole and five board cards
EvalBest ==
  /\ Len(ev.cards) = 7
  /\ ev.res = NoTuple
  /\ ev' = [ev EXCEPT !.res = best_rank(SubSeq(ev.cards, 1, 2),
                                         SubSeq(ev.cards, 3, 7))]
  /\ last' = Op("best_rank")
  /\ UNCHANGED <<table, deck, pre, actor, router, game>>

\* eval5(&five)
EvalFive ==
  /\ Len(ev.cards) = 5
  /\ ev.res = NoTuple
  /\ ev' = [ev EXCEPT !.res = eval5(ev.cards)]
  /\ last' = Op("eval5")
  /\ UNCHANGED <<table, deck, pre, actor, router, game>>

EvalNext == EvalBest \/ EvalFive

SpecEval == InitEval /\ [][EvalNext]_vars

(***************************************************************************)
(* The room actor (poker-ws/src/main.rs): one Table and one Deck, created  *)
(* and shuffled once, driven by join_room, action and tick                 *)
(***************************************************************************)

\* config.starting_stack, scaled down.
StartingStack == 3

\* config.rebuy_hands of the room.
RebuyHands == 1

\* The room is followed until this many cards have left its deck: a handler
\* that would start a further hand after that is not taken.
MaxDealt == 5

\* How often one session is pushed onto actor.subscribers.
MaxSubscribed == 1

\* An Option<Instant> as the handlers read it against Instant::now(): None,
\* Some(t) with now < t, and Some(t) with now >= t.
Running == "Running"

Elapsed == "Elapsed"

\* The sessions of the room: each sends its commands under its own
\* client_msg_id.
Sessions == Users

\* HashMap::insert, remove, get(..).unwrap_or(..), entry(..).or_insert(..)
Insert(m, k, v) == [x \in DOMAIN m \cup {k} |-> IF x = k THEN v ELSE m[x]]

Remove(m, k) == [x \in DOMAIN m \ {k} |-> m[x]]

GetOr(m, k, dflt) == IF k \in DOMAIN m THEN m[k] ELSE dflt

OrInsert(m, k, v) == IF k \in DOMAIN m THEN m ELSE Insert(m, k, v)

NoEvents == [from |-> None, types |-> {}, to |-> {}]

\* The fields of the TableActor that spawn_with_config builds, next to its
\* table and deck; `sent` is what the last handler broadcast, and to whom.
ActorNew(room_end) ==
  [ready_status |-> <<>>, rebuys_left |-> <<>>, countdown_end |-> None,
   action_deadline |-> None, room_end_at |-> room_end,
   subscribers |-> [s \in Sessions |-> 0], sent |-> NoEvents]

\* TableActor::broadcast of the events of one handler: every subscriber gets
\* every event.
broadcast(a, from, types) ==
  [a EXCEPT !.sent = IF types = {} THEN NoEvents
                     ELSE [from |-> from, types |-> types,
                           to |-> {s \in Sessions : a.subscribers[s] > 0}]]

\* ServerEvent::TableSnapshot as serde writes it: the whole Table, every
\* field of every Seat but acted_in_round (#[serde(skip)]), the ready map and
\* the user of the seat to act.
TableSnapshot(t, a) ==
  [table |-> [t EXCEPT !.seats =
                [i \in SeatIdx |->
                   [user_id |-> t.seats[i].user_id, stack |-> t.seats[i].stack,
                    hole |-> t.seats[i].hole,
                    sitting_out |-> t.seats[i].sitting_out,
                    has_folded |-> t.seats[i].has_folded,
                    is_allin |-> t.seats[i].is_allin]]],
   ready |-> a.ready_status,
   to_act_uid |-> t.seats[t.to_act_idx].user_id]

\* The auto-start shared by the handlers: start_hand on the actor's own deck
\* when at least two seats are active and the room has not ended.
AutoStart(t, d, a) ==
  IF active_player_count(t) >= 2 /\ a.room_end_at # Elapsed
  THEN start_hand(t, d) @@ [started |-> TRUE]
  ELSE [table |-> t, deck |-> d, started |-> FALSE]

StreetThenShowdown_Stays(t, d) ==
  [table |-> t, deck |-> d, showdown |-> FALSE, panics |-> FALSE]

\* next_street followed by the showdown when the street reached Showdown
\* (lines 146-148 and 260-263).
StreetThenShowdown(t, d) ==
  LET ns == next_street(t, d)
  IN [table |-> IF ns.table.street = "Showdown"
                THEN showdown_and_payout(ns.table) ELSE ns.table,
      deck |-> ns.deck,
      showdown |-> ns.table.street = "Showdown",
      panics |-> ns.table.street = "Showdown" /\ ShowdownPanics(ns.table)]

\* actor.deck.shuffle(), once, when the actor is spawned.
RoomDecks == {DeckWithTop(TopB)}

\* A room created with a duration (room_end_at is set and still ahead).
InitRoom ==
  /\ table = TableNew
  /\ deck \in RoomDecks
  /\ last = Op("init")
  /\ pre = TableNew
  /\ ev = EvIdle
  /\ actor = ActorNew(Running)
  /\ router = RouterIdle
  /\ game = GameIdle

\* ActorMsg::Subscribe, which the router sends ahead of every command.
RoomSubscribe(s) ==
  /\ actor.subscribers[s] < MaxSubscribed
  /\ actor' = broadcast([actor EXCEPT !.subscribers[s] = @ + 1], s,
                        {"welcome"})
  /\ last' = [Op("subscribe") EXCEPT !.user = s]
  /\ pre' = table
  /\ UNCHANGED <<table, deck, ev, router, game>>

\* ClientAction::JoinRoom: sit, then start a hand when two seats are active;
\* the street tested is that of actor.state, which no handler ever writes.
RoomJoin(u) ==
  /\ actor.subscribers[u] > 0
  /\ \E t1 \in {sit(table, u, StartingStack).table} :
       \E go \in {AutoStart(t1, deck, actor)} :
          /\ go.started => Len(DeckNew) - Len(deck) < MaxDealt
          /\ table' = go.table
          /\ deck' = go.deck
          /\ actor' = broadcast(
               [actor EXCEPT
                  !.rebuys_left = OrInsert(@, u, RebuyHands),
                  !.ready_status = Insert(@, u, FALSE),
                  !.action_deadline = IF go.started THEN Running ELSE @],
               u,
               {"player_joined", "table_snapshot"}
                 \cup (IF active_player_count(t1) >= 2 /\ ~go.started
                       THEN {"room_closed"} ELSE {}))
          /\ last' = [Op("join_room") EXCEPT !.user = u,
                                             !.started = go.started]
          /\ pre' = table
          /\ UNCHANGED <<ev, router, game>>

\* ClientAction::Ready
RoomReady(u, ready) ==
  /\ actor.subscribers[u] > 0
  /\ actor' = broadcast([actor EXCEPT !.ready_status = Insert(@, u, ready)],
                        u, {"player_ready"})
  /\ last' = [Op("ready") EXCEPT !.user = u,
                                 !.res = IF ready THEN "true" ELSE "false"]
  /\ pre' = table
  /\ UNCHANGED <<table, deck, ev, router, game>>

\* ClientAction::LeaveRoom
RoomLeave(u) ==
  /\ actor.subscribers[u] > 0
  /\ \E i \in {SeatOf(table, u)} :
       IF i = -1
       THEN /\ actor' = broadcast(actor, u, {})
            /\ UNCHANGED table
       ELSE /\ table' = IF table.street = None
                        THEN [table EXCEPT !.seats[i] = SeatEmpty]
                        ELSE [table EXCEPT !.seats[i].sitting_out = TRUE]
            /\ actor' = broadcast(
                 [actor EXCEPT
                    !.ready_status = IF table.street = None
                                     THEN Remove(@, u)
                                     ELSE Insert(@, u, FALSE),
                    !.countdown_end = None],
                 u, {"player_left", "table_snapshot"})
  /\ last' = [Op("leave_room") EXCEPT !.user = u]
  /\ pre' = table
  /\ UNCHANGED <<deck, ev, router, game>>

\* ClientAction::Rebuy; the street tested is that of actor.state.
RoomRebuy(u) ==
  /\ actor.subscribers[u] > 0
  /\ \E i \in {SeatOf(table, u)} :
       \E left \in {OrInsert(actor.rebuys_left, u, RebuyHands)} :
          IF left[u] > 0 /\ i # -1 /\ table.seats[i].stack < StartingStack
          THEN /\ table' = [table EXCEPT !.seats[i].stack = StartingStack]
               /\ actor' = broadcast(
                    [actor EXCEPT !.rebuys_left = [left EXCEPT ![u] = @ - 1]],
                    u, {"table_snapshot"})
               /\ last' = [Op("rebuy") EXCEPT !.user = u, !.res = "true"]
          ELSE /\ actor' = broadcast([actor EXCEPT !.rebuys_left = left],
                                     u, {})
               /\ last' = [Op("rebuy") EXCEPT !.user = u, !.res = "false"]
               /\ UNCHANGED table
  /\ pre' = table
  /\ UNCHANGED <<deck, ev, router, game>>

\* What follows next_street in the Action handler: after a showdown, the
\* start of the next hand (lines 264-266).
AfterNextStreet(ss, a) ==
  IF ss.showdown
  THEN AutoStart(ss.table, ss.deck, a)
  ELSE [table |-> ss.table, deck |-> ss.deck, started |-> FALSE]

\* ClientAction::Action: the table call and, on Ok(NextStreet), what follows.
RoomAction(u, action, amount) ==
  /\ actor.subscribers[u] > 0
  /\ \E r \in {apply_action_by_user(table, u, action, amount)} :
      \E ss \in {IF r.res = "NextStreet"
                 THEN StreetThenShowdown(r.table, deck)
                 ELSE [table |-> r.table, deck |-> deck, showdown |-> FALSE,
                       panics |-> FALSE]} :
        \E go \in {AfterNextStreet(ss, actor)} :
           /\ ~ss.panics
           /\ go.started => Len(DeckNew) - Len(deck) < MaxDealt
           /\ table' = go.table
           /\ deck' = go.deck
           /\ actor' = broadcast(
                [actor EXCEPT
                   !.action_deadline = IF r.res = "NextStreet" THEN Running
                                       ELSE @],
                u,
                {"action_ack", "table_snapshot"}
                  \cup (IF r.res \in ErrResults THEN {"error"} ELSE {})
                  \cup (IF ss.showdown /\ ~go.started
                           /\ actor.room_end_at # None
                        THEN {"room_closed"} ELSE {}))
           /\ last' = [op |-> "action", res |-> r.res,
                       user |-> u,
                       action |-> IF r.res \in OkResults THEN action ELSE "",
                       started |-> go.started]
           /\ pre' = table
           /\ UNCHANGED <<ev, router, game>>

CheckOrFold_Calls(t, uid) ==
  LET chk == apply_action_by_user(t, uid, "check", NoAmount)
  IN IF chk.res \in OkResults THEN chk
     ELSE apply_action_by_user(t, uid, "call", NoAmount)

\* The auto-action of a tick: check, or else fold (lines 144-145).
CheckOrFold(t, uid) ==
  LET chk == apply_action_by_user(t, uid, "check", NoAmount)
  IN IF chk.res \in OkResults THEN chk
     ELSE apply_action_by_user(t, uid, "fold", NoAmount)

\* ActorMsg::Tick with a hand open: nothing before the action deadline;
\* after it, check or else fold for the seat to act, then next_street, then
\* the showdown.
RoomTickAct ==
  /\ table.street \in OpenStreets
  /\ pre' = table
  /\ UNCHANGED <<ev, router, game>>
  /\ IF actor.room_end_at = Elapsed
     THEN /\ actor' = broadcast(actor, None, {"room_closed"})
          /\ last' = Op("tick")
          /\ UNCHANGED <<table, deck>>
     ELSE IF \/ actor.action_deadline = Running
             \/ table.seats[table.to_act_idx].user_id = None
     THEN /\ actor' = broadcast(actor, None, {})
          /\ last' = Op("tick")
          /\ UNCHANGED <<table, deck>>
     ELSE \E r \in {CheckOrFold(table,
                                table.seats[table.to_act_idx].user_id)} :
            \E ss \in {StreetThenShowdown(r.table, deck)} :
               /\ ~ss.panics
               /\ table' = ss.table
               /\ deck' = ss.deck
               /\ actor' = broadcast(
                    [actor EXCEPT !.action_deadline = Running],
                    None, {"table_snapshot"})
               /\ last' = [Op("tick") EXCEPT
                             !.res = r.res,
                             !.user = table.seats[table.to_act_idx].user_id]

\* The all_ready loop of the tick (lines 157-164).
AllReady(t, a) ==
  \A i \in SeatIdx :
     (t.seats[i].user_id # None /\ ~t.seats[i].sitting_out)
       => GetOr(a.ready_status, t.seats[i].user_id, FALSE)

\* ActorMsg::Tick with no hand open: the countdown, and start_hand on the
\* actor's deck once it is over.
RoomTickStart ==
  /\ table.street \notin OpenStreets
  /\ pre' = table
  /\ UNCHANGED <<ev, router, game>>
  /\ IF ~(active_player_count(table) >= 2 /\ table.street = None)
     THEN /\ actor' = broadcast(actor, None, {})
          /\ last' = Op("tick")
          /\ UNCHANGED <<table, deck>>
     ELSE IF ~(AllReady(table, actor) /\ actor.room_end_at # Elapsed)
     THEN /\ actor' = broadcast([actor EXCEPT !.countdown_end = None],
                                None, {})
          /\ last' = Op("tick")
          /\ UNCHANGED <<table, deck>>
     ELSE IF actor.countdown_end # Elapsed
     THEN /\ actor' = broadcast([actor EXCEPT !.countdown_end = Running],
                                None, {"game_start_countdown"})
          /\ last' = Op("tick")
          /\ UNCHANGED <<table, deck>>
     ELSE /\ Len(DeckNew) - Len(deck) < MaxDealt
          /\ \E go \in {start_hand(table, deck)} :
               /\ table' = go.table
               /\ deck' = go.deck
          /\ actor' = broadcast(
               [actor EXCEPT !.action_deadline = Running,
                             !.countdown_end = None],
               None, {"table_snapshot"})
          /\ last' = [Op("tick") EXCEPT !.started = TRUE]

\* Instant::now() reaches a timer that is set.
TimePasses(timer) ==
  /\ actor[timer] = Running
  /\ actor' = [actor EXCEPT ![timer] = Elapsed]
  /\ UNCHANGED <<table, deck, last, pre, ev, router, game>>

\* The room under sessions that join and play, with the action clock and
\* the room's duration running.
RoomNext ==
  \/ \E s \in Sessions : RoomSubscribe(s)
  \/ \E u \in Users : RoomJoin(u)
  \/ \E u \in Users, action \in Actions :
       \E amount \in (IF action = "raise" THEN Amounts ELSE {NoAmount}) :
          RoomAction(u, action, amount)
  \/ RoomTickAct
  \/ RoomTickStart
  \/ \E timer \in {"action_deadline", "room_end_at"} : TimePasses(timer)

SpecRoom == InitRoom /\ [][RoomNext]_vars

\* The room under sessions that join, get ready, rebuy, leave and fold
\* their hands, with the pre-hand countdown running.
\* A tick that arrives now makes the auto-action: a hand is open, the room
\* has not ended, no deadline lies ahead and the seat to act has a user.
TickDue ==
  /\ table.street \in OpenStreets
  /\ actor.room_end_at # Elapsed
  /\ actor.action_deadline # Running
  /\ table.seats[table.to_act_idx].user_id # None

\* The room with its scheduling: the clock reaches every deadline, and the
\* ticker task sends a Tick every 200 ms for as long as the actor lives, so
\* an auto-action that stays due is made (weak fairness of the acting tick,
\* with TickDue as its enabling condition).
SpecRoomLive ==
  /\ SpecRoom
  /\ WF_vars(TimePasses("action_deadline"))
  /\ \/ []<>(~TickDue)
     \/ []<><<last'.op = "tick" /\ table' # table>>_vars

LobbyNext ==
  \/ \E s \in Sessions : RoomSubscribe(s)
  \/ \E u \in Users : RoomJoin(u)
  \/ \E u \in Users, ready \in BOOLEAN : RoomReady(u, ready)
  \/ \E u \in Users : RoomLeave(u)
  \/ \E u \in Users : RoomRebuy(u)
  \/ \E u \in Users : RoomAction(u, "fold", NoAmount)
  \/ RoomTickAct
  \/ RoomTickStart
  \/ TimePasses("countdown_end")

SpecLobby == InitRoom /\ [][LobbyNext]_vars

(***************************************************************************)
(* The router (handle_socket in poker-ws/src/main.rs): sessions that look  *)
(* a room up in the shared map, spawn its actor when it is missing and     *)
(* send their command to the handle they got                               *)
(***************************************************************************)

RoomIds == {"r1", "r2"}

\* create_room, and one command standing for all that take the other arm.
Kinds == {"create_room", "join_room"}

\* Commands read from one socket.
MaxCommands == 2

SessionIdle == [pc |-> "idle", kind |-> "", room |-> "", found |-> FALSE,
                tx |-> 0, done |-> 0]

\* main: an empty TableMap, no actor spawned. An actor is numbered by its
\* place in `actors`, which keeps its room id and what reached its inbox.
RouterNew ==
  [tables |-> [id \in RoomIds |-> 0], actors |-> <<>>, lock |-> None,
   sess |-> [s \in Sessions |-> SessionIdle]]

InitRouter ==
  /\ table = TableNew
  /\ deck = DeckNew
  /\ last = Op("init")
  /\ pre = TableNew
  /\ ev = EvIdle
  /\ actor = ActorIdle
  /\ router = RouterNew
  /\ game = GameIdle

\* ws_rx.next().await yields a command carrying a room id.
Receive(s, kind, room) ==
  /\ router.sess[s].pc = "idle"
  /\ router.sess[s].done < MaxCommands
  /\ router' = [router EXCEPT !.sess[s] = [@ EXCEPT !.pc = "wait",
                                                   !.kind = kind,
                                                   !.room = room]]
  /\ UNCHANGED <<table, deck, last, pre, ev, actor, game>>

MutexFree_Always(r) == TRUE

\* tokio::sync::Mutex: lock().await returns once no other task holds it.
MutexFree(r) == r.lock = None

\* let mut map = tables.lock().await
Lock(s) ==
  /\ router.sess[s].pc = "wait"
  /\ MutexFree(router)
  /\ router' = [router EXCEPT !.lock = s, !.sess[s].pc = "locked"]
  /\ UNCHANGED <<table, deck, last, pre, ev, actor, game>>

\* TableActor::spawn / spawn_with_config followed by map.insert (or the
\* or_insert_with of the entry): a new actor, and its handle in the map.
SpawnInsert(r, room) ==
  [r EXCEPT !.actors = Append(@, [room |-> room, inbox |-> <<>>]),
            !.tables[room] = Len(r.actors) + 1]

\* create_room: if !map.contains_key(&room_id)
ContainsKey(s) ==
  /\ router.sess[s].pc = "locked"
  /\ router.sess[s].kind = "create_room"
  /\ router' = [router EXCEPT
                  !.sess[s].found = router.tables[router.sess[s].room] # 0,
                  !.sess[s].pc = "checked"]
  /\ UNCHANGED <<table, deck, last, pre, ev, actor, game>>

\* create_room: spawn and insert, or map.get(..).clone(); the guard is
\* dropped at the end of the block.
CreateRoom(s) ==
  /\ router.sess[s].pc = "checked"
  /\ \E r \in {IF router.sess[s].found THEN router
               ELSE SpawnInsert(router, router.sess[s].room)} :
       router' = [r EXCEPT !.lock = None,
                           !.sess[s].tx = r.tables[router.sess[s].room],
                           !.sess[s].pc = "unlocked"]
  /\ UNCHANGED <<table, deck, last, pre, ev, actor, game>>

\* Every other command: map.entry(id).or_insert_with(spawn).clone(); the
\* guard is dropped at the end of the block.
EntryOrInsert(s) ==
  /\ router.sess[s].pc = "locked"
  /\ router.sess[s].kind # "create_room"
  /\ \E r \in {IF router.tables[router.sess[s].room] # 0 THEN router
               ELSE SpawnInsert(router, router.sess[s].room)} :
       router' = [r EXCEPT !.lock = None,
                           !.sess[s].tx = r.tables[router.sess[s].room],
                           !.sess[s].pc = "unlocked"]
  /\ UNCHANGED <<table, deck, last, pre, ev, actor, game>>

\* tx.send(ActorMsg::Subscribe(client_tx.clone()))
SendSubscribe(s) ==
  /\ router.sess[s].pc = "unlocked"
  /\ router' = [router EXCEPT
                  !.actors[router.sess[s].tx].inbox =
                     Append(@, [from |-> s, msg |-> "subscribe",
                                room |-> router.sess[s].room]),
                  !.sess[s].pc = "subscribed"]
  /\ UNCHANGED <<table, deck, last, pre, ev, actor, game>>

\* tx.send(ActorMsg::Client(cmd)); a create_room is answered by the router
\* itself (room_created) and nothing more goes to the actor.
SendCommand(s) ==
  /\ router.sess[s].pc = "subscribed"
  /\ router' = [router EXCEPT
                  !.actors[router.sess[s].tx].inbox =
                     IF router.sess[s].kind = "create_room" THEN @
                     ELSE Append(@, [from |-> s, msg |-> router.sess[s].kind,
                                     room |-> router.sess[s].room]),
                  !.sess[s] = [SessionIdle EXCEPT
                                 !.done = router.sess[s].done + 1]]
  /\ UNCHANGED <<table, deck, last, pre, ev, actor, game>>

\* The subscribers list of an actor once it has handled its inbox: the
\* Subscribe handler pushes the sender of every Subscribe it receives.
subscribers(inbox) ==
  [n \in 1..Len(SelectSeq(inbox, LAMBDA m : m.msg = "subscribe")) |->
     SelectSeq(inbox, LAMBDA m : m.msg = "subscribe")[n].from]

RouterNext ==
  \/ \E s \in Sessions, kind \in Kinds, room \in RoomIds :
       Receive(s, kind, room)
  \/ \E s \in Sessions : Lock(s)
  \/ \E s \in Sessions : ContainsKey(s)
  \/ \E s \in Sessions : CreateRoom(s)
  \/ \E s \in Sessions : EntryOrInsert(s)
  \/ \E s \in Sessions : SendSubscribe(s)
  \/ \E s \in Sessions : SendCommand(s)

SpecRouter == InitRouter /\ [][RouterNext]_vars

(***************************************************************************)
(* The legacy engine (src/rules.rs, src/state.rs): its evaluator           *)
(***************************************************************************)

\* rules::HandRank with its derived order; `rank > best.rank` in
\* find_best_five_card_hand reads the greater variant as the better hand.
RankIndex ==
  [HighCard |-> 0, OnePair |-> 1, TwoPair |-> 2, ThreeOfAKind |-> 3,
   Straight |-> 4, Flush |-> 5, FullHouse |-> 6, FourOfAKind |-> 7,
   StraightFlush |-> 8, RoyalFlush |-> 9]

check_straight_AceHighOnly(cards) ==
  LET values == {RankOf(cards[i]) : i \in 1..Len(cards)}
      sorted_values == SeqAsc(values)
      RECURSIVE Loop(_, _, _)
      Loop(i, consecutive, max_value) ==
        IF i > Len(sorted_values) THEN max_value
        ELSE IF sorted_values[i] = sorted_values[i - 1] + 1
             THEN Loop(i + 1, consecutive + 1,
                       IF consecutive + 1 >= 5 THEN sorted_values[i]
                       ELSE max_value)
             ELSE Loop(i + 1, 1, max_value)
      max == Loop(2, 1, 0)
  IN IF max > 0 THEN [is_straight |-> TRUE, high |-> max]
     ELSE [is_straight |-> FALSE, high |-> 2]

\* check_straight(cards) -> (bool, Rank): the set of rank values, with 1
\* added when it holds the ace, sorted, and the run-length loop over it.
check_straight(cards) ==
  LET values0 == {RankOf(cards[i]) : i \in 1..Len(cards)}
      values == IF 14 \in values0 THEN values0 \cup {1} ELSE values0
      sorted_values == SeqAsc(values)
      RECURSIVE Loop(_, _, _)
      Loop(i, consecutive, max_value) ==
        IF i > Len(sorted_values) THEN max_value
        ELSE IF sorted_values[i] = sorted_values[i - 1] + 1
             THEN Loop(i + 1, consecutive + 1,
                       IF consecutive + 1 >= 5 THEN sorted_values[i]
                       ELSE max_value)
             ELSE IF sorted_values[i] # sorted_values[i - 1]
                  THEN Loop(i + 1, 1, max_value)
                  ELSE Loop(i + 1, consecutive, max_value)
      max == Loop(2, 1, 0)
  IN IF max > 0
     THEN [is_straight |-> TRUE, high |-> max]
     ELSE [is_straight |-> FALSE, high |-> 2]

\* compare_kickers(k1, k2): the first difference of the zipped sequences.
RECURSIVE compare_kickers(_, _)
compare_kickers(k1, k2) ==
  IF Len(k1) = 0 \/ Len(k2) = 0 THEN "Equal"
  ELSE IF k1[1] > k2[1] THEN "Greater"
  ELSE IF k1[1] < k2[1] THEN "Less"
  ELSE compare_kickers(Tail(k1), Tail(k2))

\* evaluate_five_cards(cards) -> HandEvaluation
evaluate_five_cards(cards) ==
  LET HandEvaluation(rank, kickers) == [rank |-> rank, kickers |-> kickers]
      ranks == [i \in 1..5 |-> RankOf(cards[i])]
      rank_counts == CountsOf(ranks)
      OfCount(n) == {r \in 2..14 : rank_counts[r] = n}
      Others(ex) == {r \in 2..14 : rank_counts[r] > 0 /\ r \notin ex}
      Max(S) == CHOOSE r \in S : \A q \in S : q <= r
      Desc(S) == Reverse(SeqAsc(S))
      Truncate(s, n) == SubSeq(s, 1, IF Len(s) < n THEN Len(s) ELSE n)
      is_flush == \A i \in 1..5 : SuitOf(cards[i]) = SuitOf(cards[1])
      st == check_straight(cards)
      three_rank == Max(OfCount(3))
      fh_pairs == {r \in Others({three_rank}) : rank_counts[r] >= 2}
      sorted_pairs == Desc(OfCount(2))
  IN IF is_flush /\ st.is_straight /\ st.high = 14
       THEN HandEvaluation("RoyalFlush", <<14>>)
     ELSE IF is_flush /\ st.is_straight
       THEN HandEvaluation("StraightFlush", <<st.high>>)
     ELSE IF OfCount(4) # {}
       THEN HandEvaluation("FourOfAKind",
                           <<Max(OfCount(4)), Max(Others(OfCount(4)))>>)
     ELSE IF OfCount(3) # {} /\ fh_pairs # {}
       THEN HandEvaluation("FullHouse", <<three_rank, Max(fh_pairs)>>)
     ELSE IF is_flush THEN HandEvaluation("Flush", SortDesc(ranks))
     ELSE IF st.is_straight THEN HandEvaluation("Straight", <<st.high>>)
     ELSE IF OfCount(3) # {}
       THEN HandEvaluation("ThreeOfAKind",
              <<three_rank>> \o Truncate(Desc(Others({three_rank})), 2))
     ELSE IF Len(sorted_pairs) >= 2
       THEN HandEvaluation("TwoPair",
              <<sorted_pairs[1], sorted_pairs[2],
                Max(Others({sorted_pairs[1], sorted_pairs[2]}))>>)
     ELSE IF OfCount(2) # {}
       THEN HandEvaluation("OnePair",
              <<Max(OfCount(2))>> \o Truncate(Desc(Others(OfCount(2))), 3))
     ELSE HandEvaluation("HighCard", SortDesc(ranks))

\* evaluate_hand(player_cards, community_cards): find_best_five_card_hand
\* over the combinations of five of the cards, in itertools' order, starting
\* from the first five, then evaluate_five_cards of the hand it kept.
evaluate_hand(player_cards, community_cards) ==
  LET all_cards == player_cards \o community_cards
      \* Itertools::combinations: the index sets from lo..n, in lexicographic
      \* order.
      With(lo, rest) == [j \in 1..Len(rest) |-> <<lo>> \o rest[j]]
      RECURSIVE Combs(_, _, _)
      Combs(lo, n, k) ==
        IF k = 0 THEN <<<<>>>>
        ELSE IF n - lo + 1 < k THEN <<>>
        ELSE With(lo, Combs(lo + 1, n, k - 1)) \o Combs(lo + 1, n, k)
      Hand(c) == [q \in 1..5 |-> all_cards[c[q]]]
      Beats(a, b) ==
        \/ RankIndex[a.rank] > RankIndex[b.rank]
        \/ /\ a.rank = b.rank
           /\ compare_kickers(a.kickers, b.kickers) = "Greater"
      RECURSIVE Loop(_, _, _)
      Loop(combs, n, best_evaluation) ==
        IF n > Len(combs) THEN best_evaluation
        ELSE LET evaluation == evaluate_five_cards(Hand(combs[n]))
             IN Loop(combs, n + 1, IF Beats(evaluation, best_evaluation)
                                   THEN evaluation ELSE best_evaluation)
  IN IF Len(all_cards) <= 5 THEN evaluate_five_cards(all_cards)
     ELSE CHOOSE best \in
            {Loop(combs, 1, evaluate_five_cards(SubSeq(all_cards, 1, 5))) :
               combs \in {Combs(1, Len(all_cards), 5)}} : TRUE

(***************************************************************************)
(* The legacy engine: TexasHoldem (src/state.rs).  Indices are the code's, *)
(* from 0; players[i + 1] is the code's players[i].  A call returns the    *)
(* TexasHoldem it leaves and its Result.                                    *)
(***************************************************************************)

\* current_bet_round(&self) -> u32
current_bet_round(g) ==
  LET RECURSIVE MaxFrom(_, _)
      MaxFrom(i, m) ==
        IF i > Len(g.players) THEN m
        ELSE MaxFrom(i + 1, IF g.players[i].current_bet > m
                            THEN g.players[i].current_bet ELSE m)
  IN MaxFrom(1, 0)

\* advance_to_next_player(&mut self)
advance_to_next_player(g) ==
  LET n == Len(g.players)
      start_index == (g.current_player_index + 1) % n
      RECURSIVE Loop(_)
      Loop(next_index) ==
        IF g.players[next_index + 1].is_active
           /\ g.players[next_index + 1].chips > 0
        THEN next_index
        ELSE IF (next_index + 1) % n = start_index THEN start_index
             ELSE Loop((next_index + 1) % n)
  IN [g EXCEPT !.current_player_index = Loop(start_index)]

\* setup_new_hand(&mut self), with deal_cards and post_blinds: every player
\* is reset and gets the two cards popped from the end of the deck while it
\* has two, and the blinds are posted.
setup_new_hand(g) ==
  LET n == Len(g.players)
      RECURSIVE Deal(_, _, _)
      Deal(i, ps, d) ==
        IF i > n THEN [players |-> ps, deck |-> d]
        ELSE IF Len(d) >= 2
             THEN Deal(i + 1,
                       [ps EXCEPT ![i].cards = <<d[Len(d)], d[Len(d) - 1]>>],
                       SubSeq(d, 1, Len(d) - 2))
             ELSE Deal(i + 1, ps, d)
      reset == [i \in 1..n |->
                  [g.players[i] EXCEPT !.cards = NoTuple, !.is_active = TRUE,
                                       !.has_acted = FALSE, !.current_bet = 0,
                                       !.total_bet_in_hand = 0]]
      dealt == Deal(1, reset, g.deck)
      Post(s, pos, blind) ==
        LET amount == Min(s.players[pos + 1].chips, blind)
        IN [s EXCEPT !.players[pos + 1].chips = @ - amount,
                     !.players[pos + 1].current_bet = amount,
                     !.players[pos + 1].total_bet_in_hand = @ + amount,
                     !.pot = @ + amount]
  IN Post(Post([g EXCEPT !.community_cards = <<>>, !.pot = 0,
                         !.stage = "PreFlop",
                         !.players = dealt.players, !.deck = dealt.deck,
                         !.current_player_index =
                           (g.dealer_position + 3) % n],
               (g.dealer_position + 1) % n, SmallBlind),
          (g.dealer_position + 2) % n, BigBlind)

\* resolve_showdown(&mut self): compute_side_pots (the players in a stable
\* sort by total bet, one pot for every distinct positive total, its eligible
\* players those whose total reaches it), evaluate_all_hands (an evaluation for the active
\* players holding cards), the winners loop and the payment of
\* pot.amount / winners.len() to each winner.
resolve_showdown(g) ==
  LET n == Len(g.players)
      Bet(i) == g.players[i + 1].total_bet_in_hand
      Before(i, j) == Bet(i) < Bet(j) \/ (Bet(i) = Bet(j) /\ i < j)
      bets == [k \in 1..n |->
                 CHOOSE i \in 0..(n - 1) :
                   Cardinality({j \in 0..(n - 1) : Before(j, i)}) = k - 1]
      RECURSIVE Pots(_, _, _)
      Pots(k, last_bet, pots) ==
        IF k > n THEN pots
        ELSE IF Bet(bets[k]) > last_bet
             THEN LET eligible_players ==
                        SelectSeq(bets, LAMBDA i : Bet(i) >= Bet(bets[k]))
                  IN Pots(k + 1, Bet(bets[k]),
                          Append(pots,
                                 [amount |-> (Bet(bets[k]) - last_bet)
                                             * Len(eligible_players),
                                  eligible_players |-> eligible_players]))
             ELSE Pots(k + 1, last_bet, pots)
      side_pots == Pots(1, 0, <<>>)
      NoEval == [rank |-> None, kickers |-> <<>>]
      evaluate_all_hands ==
        [i \in 1..n |->
           IF g.players[i].is_active /\ g.players[i].cards # NoTuple
           THEN evaluate_hand(g.players[i].cards, g.community_cards)
           ELSE NoEval]
      RECURSIVE Winners(_, _, _, _, _)
      Winners(evaluations, pot, k, best_eval, winners) ==
        IF k > Len(pot.eligible_players) THEN winners
        ELSE LET player_index == pot.eligible_players[k]
                 eval == evaluations[player_index + 1]
                 Keep == Winners(evaluations, pot, k + 1, best_eval, winners)
                 Lead == Winners(evaluations, pot, k + 1, eval,
                                 <<player_index>>)
             IN IF eval = NoEval THEN Keep
                ELSE IF best_eval = NoEval THEN Lead
                ELSE IF RankIndex[eval.rank] > RankIndex[best_eval.rank]
                  THEN Lead
                ELSE IF eval.rank # best_eval.rank THEN Keep
                ELSE IF compare_kickers(eval.kickers, best_eval.kickers)
                          = "Equal"
                  THEN Winners(evaluations, pot, k + 1, best_eval,
                               Append(winners, player_index))
                ELSE IF compare_kickers(eval.kickers, best_eval.kickers)
                          = "Greater"
                  THEN Lead
                ELSE Keep
      Share(pot, winners, winnings) ==
        IF Len(winners) = 0 THEN winnings
        ELSE [i \in 1..n |->
                IF \E w \in 1..Len(winners) : winners[w] = i - 1
                THEN winnings[i] + pot.amount \div Len(winners)
                ELSE winnings[i]]
      RECURSIVE Award(_, _, _, _)
      Award(evaluations, pots, k, winnings) ==
        IF k > Len(pots) THEN winnings
        ELSE Award(evaluations, pots, k + 1,
                   Share(pots[k],
                         Winners(evaluations, pots[k], 1, NoEval, <<>>),
                         winnings))
      AddChips(winnings) ==
        [g EXCEPT !.players =
           [i \in 1..n |-> [g.players[i] EXCEPT !.chips = @ + winnings[i]]]]
  IN CHOOSE resolved \in
          {AddChips(Award(evaluations, side_pots, 1, [i \in 1..n |-> 0])) :
             evaluations \in {evaluate_all_hands}} : TRUE

\* advance_to_next_stage(&mut self) -> Result<(), GameError>
advance_to_next_stage(g) ==
  LET n == Len(g.players)
      g0 == [g EXCEPT !.players =
               [i \in 1..n |-> [g.players[i] EXCEPT !.current_bet = 0,
                                                    !.has_acted = FALSE]]]
      Push(k, stage) ==
        [g0 EXCEPT !.community_cards =
                     @ \o [q \in 1..k |-> g0.deck[Len(g0.deck) + 1 - q]],
                   !.deck = SubSeq(g0.deck, 1, Len(g0.deck) - k),
                   !.stage = stage]
      First(s) ==
        [game |-> advance_to_next_player(
                    [s EXCEPT !.current_player_index =
                                (s.dealer_position + 1) % n]),
         res |-> "Ok"]
      StageError == [game |-> g0, res |-> "StageError"]
  IN CASE g0.stage = "PreFlop" ->
            IF Len(g0.deck) < 3 THEN StageError ELSE First(Push(3, "Flop"))
       [] g0.stage = "Flop" ->
            IF Len(g0.deck) = 0 THEN StageError ELSE First(Push(1, "Turn"))
       [] g0.stage = "Turn" ->
            IF Len(g0.deck) = 0 THEN StageError ELSE First(Push(1, "River"))
       [] g0.stage = "River" -> First([g0 EXCEPT !.stage = "Showdown"])
       [] g0.stage = "Showdown" -> First(setup_new_hand(resolve_showdown(g0)))

\* check_round_completion(&mut self) -> Result<(), GameError>
check_round_completion(g) ==
  LET active_players == {i \in 1..Len(g.players) : g.players[i].is_active}
      all_acted ==
        \A i \in active_players :
          g.players[i].has_acted \/ g.players[i].chips = 0
      all_called ==
        \A i \in active_players :
          \/ g.players[i].current_bet = current_bet_round(g)
          \/ g.players[i].chips = 0
  IN IF Cardinality(active_players) <= 1
     THEN [game |-> [g EXCEPT !.stage = "Showdown"], res |-> "Ok"]
     ELSE IF all_acted /\ all_called THEN advance_to_next_stage(g)
     ELSE [game |-> g, res |-> "Ok"]

\* handle_action(&mut self, action) -> Result<(), GameError>.  `acted` is the
\* state that check_round_completion received: after reset_has_acted for a
\* bet or a raise, the arm of the action and advance_to_next_player.
handle_action(g, action) ==
  LET round == current_bet_round(g)
      player_index == g.current_player_index
      g0 == IF action.kind \in {"Bet", "Raise"}
            THEN [g EXCEPT !.players =
                    [i \in 1..Len(g.players) |->
                       [g.players[i] EXCEPT !.has_acted = FALSE]]]
            ELSE g
      player == g0.players[player_index + 1]
      Err(e) == [game |-> g0, res |-> e, acted |-> g0]
      Done(s) ==
        LET acted == advance_to_next_player(s)
        IN check_round_completion(acted) @@ [acted |-> acted]
      Put(chips_to_put) ==
        Done([g0 EXCEPT !.players[player_index + 1] =
                          [player EXCEPT
                             !.chips = @ - chips_to_put,
                             !.current_bet = @ + chips_to_put,
                             !.total_bet_in_hand = @ + chips_to_put,
                             !.has_acted = TRUE],
                        !.pot = @ + chips_to_put])
  IN IF player_index >= Len(g0.players) THEN Err("PlayerNotFound")
     ELSE IF ~player.is_active THEN Err("InvalidAction")
     ELSE CASE action.kind = "Fold" ->
                 Done([g0 EXCEPT !.players[player_index + 1].is_active = FALSE,
                                 !.players[player_index + 1].has_acted = TRUE])
            [] action.kind = "Check" ->
                 IF round > player.current_bet THEN Err("InvalidAction")
                 ELSE Done([g0 EXCEPT !.players[player_index + 1].has_acted
                                        = TRUE])
            [] action.kind = "Bet" ->
                 IF round > 0 THEN Err("InvalidAction")
                 ELSE IF action.amount > player.chips
                   THEN Err("InsufficientChips")
                 ELSE Put(action.amount)
            [] action.kind = "Raise" ->
                 IF round = 0 THEN Err("InvalidAction")
                 ELSE IF round + action.amount
                           > player.chips + player.current_bet
                   THEN Err("InsufficientChips")
                 ELSE Put(round + action.amount - player.current_bet)
            [] action.kind = "Call" ->
                 IF round - player.current_bet = 0 THEN Err("InvalidAction")
                 ELSE IF round - player.current_bet > player.chips
                   THEN Err("InsufficientChips")
                 ELSE Put(round - player.current_bet)

(***************************************************************************)
(* The legacy engine driven: games made by TexasHoldem::new and played by  *)
(* handle_action, showdowns set up field by field as the repository's test *)
(* does and resolved, and the evaluator on seven cards                     *)
(***************************************************************************)

\* The game is followed while fewer than this many cards have left its deck.
MaxPopped == 16

\* The largest total_bet_in_hand of a player in a showdown that is set up.
MaxBet == 2

InitLegacy ==
  LET Player(chips) ==
        [chips |-> chips, cards |-> NoTuple, is_active |-> TRUE,
         current_bet |-> 0, has_acted |-> FALSE, total_bet_in_hand |-> 0]
      TexasHoldemNew(players, d) ==
        setup_new_hand([players |-> players, community_cards |-> <<>>,
                        pot |-> 0, current_player_index |-> 0,
                        stage |-> "PreFlop", dealer_position |-> 0,
                        deck |-> d])
      NewGames ==
        {TexasHoldemNew([i \in 1..n |-> Player(StartingStack)], d) :
           n \in 2..MaxSeats, d \in ShuffledDecks}
      \* Showdowns of at least two active players: every player makes the
      \* ace-high straight with a ten and plays the board without one.
      Board == <<Card(14, 0), Card(13, 0), Card(12, 2), Card(11, 3),
                 Card(9, 1)>>
      Hole(i, ten) == IF ten THEN <<Card(10, i - 1), Card(2 + i, 3)>>
                      ELSE <<Card(2 * i, 2), Card(2 * i + 1, 2)>>
      RECURSIVE SumTo(_, _)
      SumTo(bet, i) == IF i = 0 THEN 0 ELSE bet[i] + SumTo(bet, i - 1)
      Showdowns ==
        {[players |->
            [i \in 1..MaxSeats |->
               [Player(0) EXCEPT !.cards = Hole(i, tens[i]),
                                 !.is_active = active[i],
                                 !.has_acted = TRUE,
                                 !.total_bet_in_hand = bet[i]]],
          community_cards |-> Board,
          pot |-> SumTo(bet, MaxSeats), current_player_index |-> 0,
          stage |-> "Showdown", dealer_position |-> 0, deck |-> <<>>] :
           tens \in [1..MaxSeats -> BOOLEAN],
           active \in {a \in [1..MaxSeats -> BOOLEAN] :
                        \E i, j \in 1..MaxSeats : i # j /\ a[i] /\ a[j]},
           bet \in [1..MaxSeats -> 0..MaxBet]}
      \* Seven cards: the two lowest are the hole cards.
      LegacyPool ==
        {Card(14, 0), Card(2, 1), Card(3, 0), Card(4, 0), Card(5, 0),
         Card(5, 1), Card(6, 1), Card(9, 0), Card(9, 1), Card(10, 0),
         Card(11, 0), Card(12, 0), Card(13, 0)}
  IN /\ table = TableNew
     /\ deck = DeckNew
     /\ last = Op("init")
     /\ pre = TableNew
     /\ actor = ActorIdle
     /\ router = RouterIdle
     /\ \/ game \in NewGames \cup Showdowns /\ ev = EvIdle
        \/ /\ game = GameIdle
           /\ ev \in {[cards |-> SeqAsc(c), res |-> NoTuple] :
                        c \in {x \in SUBSET LegacyPool : Cardinality(x) = 7}}

LegacyNext ==
  \* game.handle_action(action) on a game that is being played
  \/ \E kind \in {"Fold", "Check", "Call", "Bet", "Raise"}, amount \in Amounts \ {NoAmount} :
       /\ game # GameIdle
       /\ game.deck # <<>>
       /\ Len(DeckNew) - Len(game.deck) < MaxPopped
       /\ kind \in {"Fold", "Check", "Call"} => amount = 1
       /\ \E r \in {handle_action(game, [kind |-> kind, amount |-> amount])} :
            /\ game' = r.game
            /\ pre' = [before |-> game, acted |-> r.acted]
            /\ last' = [Op("handle_action") EXCEPT !.res = r.res,
                                                   !.action = kind]
       /\ UNCHANGED <<table, deck, ev, actor, router>>
  \* game.resolve_showdown() on a showdown that was set up
  \/ /\ game # GameIdle
     /\ game.deck = <<>>
     /\ last.op = "init"
     /\ game' = resolve_showdown(game)
     /\ pre' = [before |-> game, acted |-> game]
     /\ last' = Op("resolve_showdown")
     /\ UNCHANGED <<table, deck, ev, actor, router>>
  \* evaluate_hand(&(c1, c2), &community_cards)
  \/ /\ game = GameIdle
     /\ ev.res = NoTuple
     /\ ev' = [ev EXCEPT !.res = evaluate_hand(SubSeq(ev.cards, 1, 2),
                                               SubSeq(ev.cards, 3, 7))]
     /\ last' = Op("evaluate_hand")
     /\ UNCHANGED <<table, deck, pre, actor, router, game>>

SpecLegacy == InitLegacy /\ [][LegacyNext]_vars

(***************************************************************************)
(* Properties                                                              *)
(***************************************************************************)

\* C1: chips are conserved within a hand: start_hand leaves stacks + pot equal
\* to the stacks before it, and every later step of the hand (an action, a
\* street change, the showdown) leaves stacks + pot as they were.
C1_ChipsConserved ==
  LET RECURSIVE Stacks(_, _)
      Stacks(t, i) ==
        IF i >= MaxSeats THEN 0 ELSE t.seats[i].stack + Stacks(t, i + 1)
  IN /\ last.op = "start_hand"
          => Stacks(table, 0) + table.pot = Stacks(pre, 0)
     /\ last.op \in {"apply", "next_street", "showdown"}
          => Stacks(table, 0) + table.pot = Stacks(pre, 0) + pre.pot

\* C2: the pot is at all times the sum of total_contrib over the seats.
C2_PotIsContribSum ==
  LET RECURSIVE Total(_)
      Total(i) == IF i >= MaxSeats THEN 0 ELSE table.total_contrib[i] + Total(i + 1)
  IN table.pot = Total(0)

\* A raise has been paid on top of both blinds and the hand goes on.
C2_Witness ==
  /\ last.op = "apply" /\ last.action = "raise"
  /\ table.street = "Preflop"
  /\ table.pot > SmallBlind + BigBlind
  /\ table.pot = table.total_contrib[0] + table.total_contrib[1]

\* C3: an apply_action_by_user that returns Err leaves the table exactly as it
\* was: no stack, contribution, flag, street or turn pointer has changed.
C3_ErrLeavesTable ==
  (last.op = "apply" /\ last.res \in ErrResults) => table = pre

\* A check was refused in an open betting round, by the seat to act.
C3_Witness ==
  /\ last.op = "apply" /\ last.res = "cannot check"
  /\ pre.street \in OpenStreets
  /\ table = pre

\* C4: apply_action_by_user succeeds only on an open street, only for the user
\* seated at to_act_idx, and only for fold, check, call or raise; a call that
\* changed the table is a call that succeeded.
C4_OnlyActorActs ==
  /\ (last.op = "apply" /\ last.res \in OkResults)
       => /\ pre.street \in OpenStreets
          /\ pre.seats[pre.to_act_idx].user_id = last.user
          /\ last.action \in {"fold", "check", "call", "raise"}
  /\ (last.op = "apply" /\ table # pre) => last.res \in OkResults

\* The seat to act called before the flop and the round went on or closed.
C4_Witness ==
  /\ last.op = "apply" /\ last.res \in OkResults
  /\ last.action = "call"
  /\ pre.street = "Preflop"
  /\ pre.seats[pre.to_act_idx].user_id = last.user
  /\ table # pre

\* C5: at showdown a seat whose total_contrib is c receives at most the sum
\* over all seats j of min(total_contrib[j], c).
C5_SidePotCap ==
  LET RECURSIVE Cap(_, _)
      Cap(c, j) ==
        IF j >= MaxSeats THEN 0
        ELSE Min(pre.total_contrib[j], c) + Cap(c, j + 1)
  IN last.op = "showdown"
       => \A i \in SeatIdx :
            table.seats[i].stack - pre.seats[i].stack
              <= Cap(pre.total_contrib[i], 0)

\* C6: the showdown distributes exactly the pot: the layer amounts add up to
\* the pot, and the stacks grow by the pot in total.
C6_ShowdownPaysPot ==
  LET RECURSIVE Stacks(_, _)
      Stacks(t, i) ==
        IF i >= MaxSeats THEN 0 ELSE t.seats[i].stack + Stacks(t, i + 1)
      RECURSIVE Amounts6(_)
      Amounts6(pots) ==
        IF Len(pots) = 0 THEN 0 ELSE pots[1].amount + Amounts6(Tail(pots))
  IN last.op = "showdown"
       => /\ Amounts6(SidePots(pre, pre.total_contrib)) = pre.pot
          /\ Stacks(table, 0) - Stacks(pre, 0) = pre.pot
          /\ table.pot = 0

\* C7: each layer goes to the eligible seats whose HandRank is maximal among
\* the layer's eligible seats; each of the n winners takes amount div n, and
\* the first (amount mod n) winners in seat order take one chip more.
C7_LayerWinners ==
  last.op = "showdown" =>
    \A ranks \in {RanksOf(pre)}, pots \in {SidePots(pre, pre.total_contrib)} :
      \A W \in {[k \in 1..Len(pots) |->
                  {i \in SeatIdx :
                     /\ Contains(pots[k].eligible, i)
                     /\ \A j \in SeatIdx :
                          Contains(pots[k].eligible, j)
                            => RankGE(ranks[i], ranks[j])}]} :
        LET Gain(k, i) ==
              IF i \notin W[k] THEN 0
              ELSE (pots[k].amount \div Cardinality(W[k]))
                   + (IF Cardinality({w \in W[k] : w < i})
                           < pots[k].amount % Cardinality(W[k])
                      THEN 1 ELSE 0)
            RECURSIVE Gains(_, _)
            Gains(k, i) ==
              IF k > Len(pots) THEN 0 ELSE Gain(k, i) + Gains(k + 1, i)
        IN \A i \in SeatIdx :
             table.seats[i].stack = pre.seats[i].stack + Gains(1, i)

\* A showdown with a layer that several seats won and that did not divide
\* evenly, next to a seat in the layer that lost it.
C7_Witness ==
  /\ last.op = "showdown"
  /\ \E ranks \in {RanksOf(pre)} :
       \E i, j, l \in SeatIdx :
         /\ i < j
         /\ ranks[i] # NoTuple /\ ranks[i] = ranks[j]
         /\ ranks[l] # NoTuple /\ RankGT(ranks[i], ranks[l])
         /\ pre.total_contrib[l] > 0
         /\ table.seats[i].stack = table.seats[j].stack + 1
         /\ table.seats[l].stack = pre.seats[l].stack

\* C8: best_rank of two hole cards and five board cards is at least eval5 of
\* every five of the seven cards, the five board cards among them.
C8_BestOfSeven ==
  (Len(ev.cards) = 7 /\ ev.res # NoTuple)
    => \A X \in SUBSET (1..7) :
         Cardinality(X) = 5
           => RankGE(ev.res, eval5([k \in 1..5 |-> ev.cards[SeqAsc(X)[k]]]))

\* C9: A-2-3-4-5 not of one suit evaluates as a Straight (category 4) whose
\* high card is 5: below the six-high straight, above any three of a kind.
C9_Wheel ==
  LET RankSet(c) == {RankOf(c[k]) : k \in 1..Len(c)}
      Suits(c) == {SuitOf(c[k]) : k \in 1..Len(c)}
      Trips(c) == \E r \in RankSet(c) :
                    /\ Cardinality({k \in 1..5 : RankOf(c[k]) = r}) = 3
                    /\ Cardinality(RankSet(c)) = 3
  IN (Len(ev.cards) = 5 /\ ev.res # NoTuple
        /\ RankSet(ev.cards) = {14, 2, 3, 4, 5}
        /\ Cardinality(Suits(ev.cards)) > 1)
       => /\ ev.res[1] = 4
          /\ ev.res[2] = 5
          /\ \A c \in FiveInputs :
               /\ RankSet(c) = {2, 3, 4, 5, 6} => RankGT(eval5(c), ev.res)
               /\ Trips(c) => RankGT(ev.res, eval5(c))

\* C10: on an open street round_bet is the largest round_contrib of any seat.
C10_RoundBetIsMax ==
  table.street \in OpenStreets
    => /\ \A i \in SeatIdx : table.round_contrib[i] <= table.round_bet
       /\ \E i \in SeatIdx : table.round_contrib[i] = table.round_bet

\* C11: on an open street, right after start_hand and right after
\* next_street, the seat at to_act_idx is occupied, not sitting out, not
\* folded and not all-in.
C11_ToActCanAct ==
  (table.street \in OpenStreets /\ last.op \in {"start_hand", "next_street"})
    => LET s == table.seats[table.to_act_idx]
       IN /\ s.user_id # None
          /\ ~s.sitting_out
          /\ ~s.has_folded
          /\ ~s.is_allin

\* C12: after apply_action_by_user returned Ok(Continue) the seat at
\* to_act_idx is occupied, not folded, not all-in and not sitting out.
C12_ContinueToAct ==
  (last.op = "apply" /\ last.res = "Continue")
    => LET s == table.seats[table.to_act_idx]
       IN /\ s.user_id # None
          /\ ~s.has_folded
          /\ ~s.is_allin
          /\ ~s.sitting_out

\* The seat at index 1 acted, the turn wrapped round to seat 0.
C12_Witness ==
  /\ last.op = "apply" /\ last.res = "Continue"
  /\ pre.to_act_idx = 1
  /\ table.to_act_idx = 0
  /\ table.seats[1].is_allin

\* C13: next_street on an open street moves the street one step along Preflop,
\* Flop, Turn, River, Showdown, leaves the board with 3, 4, 5, 5 cards, and
\* leaves round_bet = 0 and every seat with round_contrib = 0 and
\* acted_in_round = FALSE.
C13_NextStreetStep ==
  (last.op = "next_street" /\ pre.street \in OpenStreets)
    => /\ \/ pre.street = "Preflop" /\ table.street = "Flop"
             /\ Len(table.board) = 3
          \/ pre.street = "Flop" /\ table.street = "Turn"
             /\ Len(table.board) = 4
          \/ pre.street = "Turn" /\ table.street = "River"
             /\ Len(table.board) = 5
          \/ pre.street = "River" /\ table.street = "Showdown"
             /\ Len(table.board) = 5
       /\ table.round_bet = 0
       /\ \A i \in SeatIdx :
            /\ table.round_contrib[i] = 0
            /\ ~table.seats[i].acted_in_round

\* The turn card is dealt after a betting round in which chips went in and
\* both seats acted.
C13_Witness ==
  /\ last.op = "next_street"
  /\ pre.street = "Flop" /\ table.street = "Turn"
  /\ pre.round_bet > 0
  /\ \E i \in SeatIdx : pre.seats[i].acted_in_round
  /\ Len(table.board) = 4

\* C14: a raise by less than big_blind, or with no amount, is refused and
\* changes nothing.  A successful raise leaves every other seat that is not
\* folded and not all-in with acted_in_round = FALSE; a seat's acted_in_round
\* becomes TRUE only by a successful action of its own user; and
\* apply_action_by_user returns NextStreet only when every seat that is not
\* folded and not all-in has acted and has matched round_bet.
C14_RaiseReopens ==
  [][ /\ \A u \in Users, am \in Amounts :
           UnwrapOr0(am) < BigBlind
             => \A r \in {apply_action_by_user(table, u, "raise", am)} :
                  r.res \in ErrResults /\ r.table = table
      /\ (last'.op = "apply" /\ last'.res \in OkResults
            /\ last'.action = "raise")
           => \A j \in SeatIdx :
                (/\ table'.seats[j].user_id \notin {None, last'.user}
                 /\ ~table'.seats[j].has_folded
                 /\ ~table'.seats[j].is_allin)
                  => ~table'.seats[j].acted_in_round
      /\ \A j \in SeatIdx :
           (~table.seats[j].acted_in_round /\ table'.seats[j].acted_in_round)
             => /\ last'.op = "apply" /\ last'.res \in OkResults
                /\ last'.user = table.seats[j].user_id
      /\ (last'.op = "apply" /\ last'.res = "NextStreet")
           => \A j \in SeatIdx :
                (/\ table'.seats[j].user_id # None
                 /\ ~table'.seats[j].sitting_out
                 /\ ~table'.seats[j].has_folded
                 /\ ~table'.seats[j].is_allin)
                  => /\ table'.seats[j].acted_in_round
                     /\ table'.round_contrib[j] = table'.round_bet
    ]_vars

\* A raise before the flop was answered by a call of the other seat, which
\* closed the round.
C14_Witness ==
  /\ last.op = "apply" /\ last.res = "NextStreet" /\ last.action = "call"
  /\ pre.street = "Preflop"
  /\ pre.round_bet > BigBlind
  /\ \E j \in SeatIdx :
       /\ pre.seats[j].user_id = last.user
       /\ ~pre.seats[j].acted_in_round
       /\ pre.round_contrib[j] < pre.round_bet

\* C15: in start_hand a blind seat that has chips, but no more than its blind,
\* posts its whole stack, ends with stack 0 and is_allin = TRUE, and the hand
\* goes on.
C15_ShortBlindAllIn ==
  last.op = "start_hand" =>
    \A sb \in {next_occupied_from(table, table.dealer_idx)} :
      \A bb \in {next_occupied_from(table, sb)} :
        \A p \in {<<sb, SmallBlind>>, <<bb, BigBlind>>} :
          (0 < pre.seats[p[1]].stack /\ pre.seats[p[1]].stack <= p[2])
            => /\ table.total_contrib[p[1]] = pre.seats[p[1]].stack
               /\ table.seats[p[1]].stack = 0
               /\ table.seats[p[1]].is_allin
               /\ table.street = "Preflop"

\* C16: with exactly two seated players whose stacks cover their blinds,
\* start_hand leaves pot = small_blind + big_blind and round_bet = big_blind;
\* the small blind is posted by the first occupied seat clockwise from the
\* dealer, and that seat is the one to act.
C16_HeadsUpBlinds ==
  LET Occ == {i \in SeatIdx : pre.seats[i].user_id # None}
      Dist(i) == (i + MaxSeats - pre.dealer_idx - 1) % MaxSeats
      First(S) == CHOOSE i \in S : \A j \in S : Dist(i) <= Dist(j)
  IN (last.op = "start_hand" /\ Cardinality(Occ) = 2)
       => \A sb \in {First(Occ)} :
            \A bb \in {First(Occ \ {sb})} :
              (pre.seats[sb].stack >= SmallBlind
                 /\ pre.seats[bb].stack >= BigBlind)
                => /\ table.pot = SmallBlind + BigBlind
                   /\ table.round_bet = BigBlind
                   /\ table.round_contrib[sb] = SmallBlind
                   /\ table.round_contrib[bb] = BigBlind
                   /\ table.seats[sb].stack = pre.seats[sb].stack - SmallBlind
                   /\ table.to_act_idx = sb

\* A second hand, with the dealer at seat 1: seat 0 posts the small blind and
\* is first to act.
C16_Witness ==
  /\ last.op = "start_hand"
  /\ pre.dealer_idx = 1
  /\ pre.seats[0].stack >= SmallBlind /\ pre.seats[1].stack >= BigBlind
  /\ table.pot = SmallBlind + BigBlind
  /\ table.to_act_idx = 0

\* C17: in a two-player hand with both blinds posted in full, when the player
\* to act folds before the flop, apply_action_by_user returns HandEnded, the other player's stack grows by
\* the whole pot, pot = 0, street = none, and dealer_idx is the next occupied
\* seat after the previous dealer, a different seat.
C17_HeadsUpFold ==
  LET Occ == {i \in SeatIdx : pre.seats[i].user_id # None}
      Dist(i) == (i + MaxSeats - pre.dealer_idx - 1) % MaxSeats
      First(S) == CHOOSE i \in S : \A j \in S : Dist(i) <= Dist(j)
  IN (last.op = "apply" /\ last.res \in OkResults /\ last.action = "fold"
        /\ pre.street = "Preflop" /\ Cardinality(Occ) = 2
        /\ pre.pot >= SmallBlind + BigBlind)
       => /\ last.res = "HandEnded"
          /\ \A o \in Occ \ {pre.to_act_idx} :
               table.seats[o].stack = pre.seats[o].stack + pre.pot
          /\ table.pot = 0
          /\ table.street = None
          /\ table.dealer_idx = First(Occ)
          /\ table.dealer_idx # pre.dealer_idx

\* C18: every hand the room actor starts while no hand is open, the first and
\* every later one, starts from a deck of exactly 52 distinct cards, and every
\* dealt-in seat receives exactly 2 hole cards.
C18_FreshDeck ==
  [][ (last'.started /\ table.street = None)
        => /\ Len(deck) = Len(DeckNew)
           /\ Distinct(deck)
           /\ \A i \in SeatIdx :
                (table'.seats[i].user_id # None /\ ~table'.seats[i].sitting_out)
                  => Len(table'.seats[i].hole) = 2
    ]_vars

\* C19: no card is in two holes or twice in one, no card is both on the board
\* and in a hole, and no card of a hole or of the board is still in the deck.
C19_CardsDistinct ==
  LET RECURSIVE Holes(_)
      Holes(i) ==
        IF i >= MaxSeats THEN <<>> ELSE table.seats[i].hole \o Holes(i + 1)
  IN Distinct(Holes(0) \o table.board \o deck)

\* The river: two cards in each of two holes, five on the board, 43 left.
C19_Witness ==
  /\ table.street = "River"
  /\ Len(table.board) = 5
  /\ Len(table.seats[0].hole) = 2 /\ Len(table.seats[1].hole) = 2
  /\ Len(deck) = 43

\* C20: start_hand deals the hole cards in two passes over the occupied seats
\* that are not sitting out, each pass starting at the first such seat after
\* dealer_idx and going clockwise, one card per seat per pass.
C20_DealFromDealer ==
  LET In == {i \in SeatIdx :
               pre.seats[i].user_id # None /\ ~pre.seats[i].sitting_out}
      n == Cardinality(In)
      Dist(i) == (i + MaxSeats - pre.dealer_idx - 1) % MaxSeats
      Place(i) == 1 + Cardinality({j \in In : Dist(j) < Dist(i)})
  IN last.op = "start_hand"
       => \E d \in ShuffledDecks :
            /\ deck = SubSeq(d, 1, Len(d) - 2 * n)
            /\ \A i \in In :
                 table.seats[i].hole
                   = <<d[Len(d) + 1 - Place(i)], d[Len(d) + 1 - n - Place(i)]>>

\* C21: in a room, apart from the auto-start after a showdown, the street
\* goes from none to Preflop only on a tick, with at least two active seats,
\* every active seat's user ready and the countdown elapsed; a join_room
\* never starts a hand.
C21_StartNeedsCountdown ==
  [][ (table.street = None /\ table'.street = "Preflop")
        => /\ last'.op = "tick"
           /\ active_player_count(table) >= 2
           /\ AllReady(table, actor)
           /\ actor.countdown_end = Elapsed
    ]_vars

\* C22: while the countdown is running, a ready{false}, and a leave_room of a
\* seated user, clears countdown_end when it is processed.
C22_UnreadyCancels ==
  [][ \A u \in Users :
        ( /\ actor.countdown_end = Running
          /\ \/ RoomReady(u, FALSE)
             \/ (RoomLeave(u) /\ SeatOf(table, u) # -1) )
          => actor'.countdown_end = None
    ]_vars

\* C23: a rebuy tops the user's seat up to starting_stack and takes one from
\* rebuys_left when no hand is open, rebuys are left and the stack is below
\* starting_stack; in every other case the table and the counter stay as
\* they are (stated for rooms where no user holds two seats).
C23_RebuyBetweenHands ==
  [][ \A u \in Users :
        ( /\ RoomRebuy(u)
          /\ \A j, k \in SeatIdx :
                (table.seats[j].user_id = table.seats[k].user_id
                   /\ table.seats[j].user_id # None) => j = k )
        =>
          LET i == SeatOf(table, u)
              left == GetOr(actor.rebuys_left, u, RebuyHands)
          IN IF /\ table.street = None
                /\ i # -1
                /\ left > 0
                /\ table.seats[i].stack < StartingStack
             THEN /\ table' = [table EXCEPT !.seats[i].stack = StartingStack]
                  /\ actor'.rebuys_left[u] = left - 1
             ELSE /\ table' = table
                  /\ GetOr(actor'.rebuys_left, u, RebuyHands) = left
    ]_vars

\* C24: a leave_room of a seated user with no hand open vacates the seat
\* and removes the user's ready entry; a seat marked sitting_out by a
\* leave_room during a hand is vacant once that hand has ended (stated for
\* rooms where no user holds two seats).
C24_LeaveFreesSeat ==
  [][ /\ \A u \in Users :
           ( /\ RoomLeave(u)
             /\ table.street = None
             /\ SeatOf(table, u) # -1
             /\ \A j, k \in SeatIdx :
                   (table.seats[j].user_id = table.seats[k].user_id
                      /\ table.seats[j].user_id # None) => j = k )
           => /\ SeatOf(table', u) = -1
              /\ u \notin DOMAIN actor'.ready_status
      /\ table'.street = None
           => \A i \in SeatIdx :
                 table'.seats[i].sitting_out => table'.seats[i].user_id = None
    ]_vars

\* C25: a join_room processed while a hand is open leaves the hand as it
\* is: street, pot, board, round_bet, contributions, to_act_idx and the
\* stack and hole cards of every seat already taken; the seat the joiner
\* gets has no hole cards and is not the seat to act (stated for hands
\* where no user holds two seats).
C25_JoinLeavesHand ==
  [][ \A u \in Users :
        ( /\ RoomJoin(u)
          /\ table.street \in OpenStreets
          /\ \A j, k \in SeatIdx :
                (table.seats[j].user_id = table.seats[k].user_id
                   /\ table.seats[j].user_id # None) => j = k )
          => /\ table'.street = table.street
             /\ table'.pot = table.pot
             /\ table'.board = table.board
             /\ table'.round_bet = table.round_bet
             /\ table'.round_contrib = table.round_contrib
             /\ table'.total_contrib = table.total_contrib
             /\ table'.to_act_idx = table.to_act_idx
             /\ \A i \in SeatIdx :
                   IF table.seats[i].user_id # None
                   THEN /\ table'.seats[i].stack = table.seats[i].stack
                        /\ table'.seats[i].hole = table.seats[i].hole
                   ELSE /\ table'.seats[i].hole = <<>>
                        /\ table'.to_act_idx # i
    ]_vars

\* C26: the error event of an action the table rejects (not your turn,
\* cannot check, min raise, hand not active) goes to the session that sent
\* the action and to no other subscriber.
C26_ErrorToSender ==
  ( /\ "error" \in actor.sent.types
    /\ last.op = "action"
    /\ last.res \in {"not your turn", "cannot check", "min raise",
                     "hand not active"} )
    => actor.sent.to \subseteq {actor.sent.from}

C28_AdvanceOnlyOnNextStreet ==
  [][ ( /\ last'.op = "tick"
        /\ table.street \in OpenStreets
        /\ last'.res \in OkResults
        /\ \A j, k \in SeatIdx :
              (table.seats[j].user_id = table.seats[k].user_id
                 /\ table.seats[j].user_id # None) => j = k )
        => CASE last'.res = "Continue" ->
                  /\ table'.street = table.street
                  /\ table'.board = table.board
             [] last'.res = "HandEnded" -> table'.street = None
             [] OTHER -> table'.street # table.street
    ]_vars

\* C29: once room_end_at has passed, every tick broadcasts room_closed to
\* the room's subscribers, with or without a hand open, and no tick and no
\* command changes the street, the board, the pot or the stack of a seat
\* that is taken.
C29_ClosedRoomIsFrozen ==
  [][ ( /\ actor.room_end_at = Elapsed
        /\ \E s \in Sessions : actor.subscribers[s] > 0 )
        => /\ (RoomTickAct \/ RoomTickStart)
                => /\ "room_closed" \in actor'.sent.types
                   /\ actor'.sent.to
                        = {s \in Sessions : actor.subscribers[s] > 0}
           /\ table'.street = table.street
           /\ table'.board = table.board
           /\ table'.pot = table.pot
           /\ \A i \in SeatIdx :
                 table.seats[i].user_id # None
                   => table'.seats[i].stack = table.seats[i].stack
    ]_vars

\* C30: under every interleaving of the sessions, no two actors are spawned
\* for one room id, the map holds the handle of the one actor of each id
\* that has one, a handle once in the map is never replaced, and every
\* message in an actor's inbox was sent for that actor's room id.
C30_OneActorPerRoom ==
  [][ /\ \A j, k \in 1..Len(router'.actors) :
           router'.actors[j].room = router'.actors[k].room => j = k
      /\ \A k \in 1..Len(router'.actors) :
           /\ router'.tables[router'.actors[k].room] = k
           /\ \A n \in 1..Len(router'.actors[k].inbox) :
                 router'.actors[k].inbox[n].room = router'.actors[k].room
      /\ \A id \in RoomIds :
           router.tables[id] # 0 => router'.tables[id] = router.tables[id]
    ]_vars

\* Two sessions have had a command delivered to the same actor, and a
\* create_room has found the id already in the map.
C30_Witness ==
  /\ \E k \in 1..Len(router.actors) :
       \A s \in Sessions :
          \E n \in 1..Len(router.actors[k].inbox) :
             /\ router.actors[k].inbox[n].from = s
             /\ router.actors[k].inbox[n].msg = "join_room"
  /\ \E s \in Sessions :
       /\ router.sess[s].pc = "unlocked"
       /\ router.sess[s].kind = "create_room"
       /\ router.sess[s].found

\* C31: while a hand is open (before showdown) at a table where no user
\* holds two seats, the table_snapshot that a session was sent shows no hole
\* card of a seat held by another user.
C31_SnapshotHidesOtherHoles ==
  ( /\ "table_snapshot" \in actor.sent.types
    /\ table.street \in OpenStreets
    /\ \A j, k \in SeatIdx :
          ( /\ table.seats[j].user_id = table.seats[k].user_id
            /\ table.seats[j].user_id # None ) => j = k )
    => \A s \in actor.sent.to : \A i \in SeatIdx :
          ( /\ table.seats[i].user_id # None
            /\ table.seats[i].user_id # s )
            => TableSnapshot(table, actor).table.seats[i].hole = <<>>

\* C32: a join_room that arrives when every seat of the table is taken
\* leaves the seats as they were and sends an error event to its session.
C32_FullTableRejectsJoin ==
  [][ \A u \in Users :
        ( /\ Vacant(table) = {}
          /\ RoomJoin(u) )
          => /\ table'.seats = table.seats
             /\ "error" \in actor'.sent.types
             /\ u \in actor'.sent.to
    ]_vars

\* C37: whatever commands the room has handled, no two seats of its table
\* hold the same user.
C37_OneSeatPerUser ==
  \A j, k \in SeatIdx :
     ( /\ table.seats[j].user_id # None
       /\ table.seats[j].user_id = table.seats[k].user_id ) => j = k

\* C38: whatever commands the sessions have sent to a room, the subscribers
\* list its actor builds from them holds each session at most once.
C38_SubscribedOnce ==
  \A k \in 1..Len(router.actors) :
     \A m, n \in 1..Len(subscribers(router.actors[k].inbox)) :
        subscribers(router.actors[k].inbox)[m]
          = subscribers(router.actors[k].inbox)[n] => m = n

C39_TurnGetsFullTime ==
  [][ ( /\ table'.street \in OpenStreets
        /\ \/ table'.street # table.street
           \/ table'.to_act_idx # table.to_act_idx )
        => actor'.action_deadline = Running
    ]_vars

(***************************************************************************)
(* The legacy engine's claims                                              *)
(***************************************************************************)

\* C35: evaluate_hand on two hole cards and five community cards returns the
\* evaluation of a five-card subset that no other five-card subset beats;
\* when no rank occurs three times, a hand whose best is a straight is
\* Straight with its top card as the only kicker (Five for A-2-3-4-5, which
\* is taken only when no six-high or higher straight is there), a straight
\* flush is StraightFlush with its top card as the only kicker, and the
\* ace-high straight flush is RoyalFlush.
C35_BestFiveOfSeven ==
  LET cards == ev.cards
      r == ev.res
      Has(R, v) == IF v = 1 THEN 14 \in R ELSE v \in R
      Tops(R) == {h \in 5..14 : \A d \in 0..4 : Has(R, h - d)}
      Top(R) == IF Tops(R) = {} THEN 0
                ELSE CHOOSE h \in Tops(R) : \A q \in Tops(R) : q <= h
      Suited(s) == {i \in 1..7 : SuitOf(cards[i]) = s}
      RanksAt(I) == {RankOf(cards[i]) : i \in I}
      FlushTops == {Top(RanksAt(Suited(s))) : s \in 0..3}
      flush_top == CHOOSE h \in FlushTops : \A q \in FlushTops : q <= h
      has_flush == \E s \in 0..3 : Cardinality(Suited(s)) >= 5
      no_three == \A v \in 2..14 :
                    Cardinality({i \in 1..7 : RankOf(cards[i]) = v}) <= 2
      Fives == {SeqAsc(I) : I \in {J \in SUBSET (1..7) : Cardinality(J) = 5}}
      Five(c) == evaluate_five_cards([q \in 1..5 |-> cards[c[q]]])
      RECURSIVE Higher(_, _)
      Higher(k1, k2) ==
        /\ Len(k1) > 0 /\ Len(k2) > 0
        /\ \/ k1[1] > k2[1]
           \/ k1[1] = k2[1] /\ Higher(Tail(k1), Tail(k2))
      Better(a, b) ==
        \/ RankIndex[a.rank] > RankIndex[b.rank]
        \/ a.rank = b.rank /\ Higher(a.kickers, b.kickers)
  IN last.op = "evaluate_hand" =>
       /\ \E c \in Fives : Five(c) = r
       /\ \A c \in Fives : ~Better(Five(c), r)
       /\ flush_top = 14 => r = [rank |-> "RoyalFlush", kickers |-> <<14>>]
       /\ flush_top \in 5..13 =>
            r = [rank |-> "StraightFlush", kickers |-> <<flush_top>>]
       /\ (no_three /\ ~has_flush /\ Top(RanksAt(1..7)) > 0) =>
            r = [rank |-> "Straight", kickers |-> <<Top(RanksAt(1..7))>>]

\* A-2-3-4-5 with neither a six nor a flush was evaluated.
C35_Witness ==
  /\ last.op = "evaluate_hand"
  /\ ev.res = [rank |-> "Straight", kickers |-> <<5>>]
  /\ \E i \in 1..7 : RankOf(ev.cards[i]) = 14

\* C33: after a handle_action that returned Ok, the stage has changed exactly
\* when more than one player is active and every active player has acted (or
\* has no chips) and has matched the highest current bet (or has no chips);
\* a change is one step of PreFlop, Flop, Turn, River, Showdown and leaves
\* 3, 4, 5, 5 community cards; a bet, call or raise adds to the pot what it
\* takes from the player's chips.
C33_StageStepsWhenRoundDone ==
  LET before == pre.before
      acted == pre.acted
      active == {i \in 1..Len(acted.players) : acted.players[i].is_active}
      Highest == CHOOSE b \in {acted.players[i].current_bet :
                                 i \in 1..Len(acted.players)} :
                   \A i \in 1..Len(acted.players) :
                     acted.players[i].current_bet <= b
      round_done ==
        /\ Cardinality(active) > 1
        /\ \A i \in active :
             /\ acted.players[i].has_acted \/ acted.players[i].chips = 0
             /\ \/ acted.players[i].current_bet = Highest
                \/ acted.players[i].chips = 0
      Steps == {<<"PreFlop", "Flop", 3>>, <<"Flop", "Turn", 4>>,
                <<"Turn", "River", 5>>, <<"River", "Showdown", 5>>}
      who == before.current_player_index + 1
  IN (last.op = "handle_action" /\ last.res = "Ok") =>
       /\ (game.stage # before.stage) <=> round_done
       /\ game.stage # before.stage =>
            <<before.stage, game.stage, Len(game.community_cards)>> \in Steps
       /\ last.action \in {"Bet", "Call", "Raise"} =>
            /\ acted.pot >= before.pot
            /\ acted.pot - before.pot
                 = before.players[who].chips - acted.players[who].chips

\* C40: a handle_action that returned Err(InvalidAction), Err(InsufficientChips)
\* or Err(PlayerNotFound) left the GameState as it was before the call.
C40_ErrLeavesStateAlone ==
  (/\ last.op = "handle_action"
   /\ last.res \in {"InvalidAction", "InsufficientChips", "PlayerNotFound"})
    => /\ game.players = pre.before.players
       /\ game.pot = pre.before.pot
       /\ game.stage = pre.before.stage
       /\ game.current_player_index = pre.before.current_player_index
       /\ game.community_cards = pre.before.community_cards
       /\ game.dealer_position = pre.before.dealer_position

\* C34: resolve_showdown awards chips whose total is the sum of the players'
\* total bets; a player is awarded chips only if active, and no more than the
\* layers its own total bet reaches hold; an active player whose total bet is
\* above every other's gets at least the excess back.
C34_ShowdownPaysAllBets ==
  LET before == pre.before
      n == Len(before.players)
      Bet(i) == before.players[i].total_bet_in_hand
      awarded(i) == game.players[i].chips - before.players[i].chips
      RECURSIVE Sum(_, _)
      Sum(F(_), i) == IF i = 0 THEN 0 ELSE F(i) + Sum(F, i - 1)
      Reached(i) == Sum(LAMBDA j : Min(Bet(j), Bet(i)), n)
      Others(i) == {Bet(j) : j \in (1..n) \ {i}}
  IN last.op = "resolve_showdown" =>
       /\ Sum(awarded, n) = Sum(Bet, n)
       /\ \A i \in 1..n :
            /\ awarded(i) > 0 => before.players[i].is_active
            /\ awarded(i) <= Reached(i)
            /\ (before.players[i].is_active
                /\ \A b \in Others(i) : b < Bet(i)) =>
                 \E b \in Others(i) : awarded(i) >= Bet(i) - b

====
